---- MODULE Spec2Model ----
(***************************************************************************)
(* A model of scripts/extract_sql_and_analyze.py, the two-stage SQL        *)
(* extraction pipeline of astgrep: SQL normalisation, extraction of the    *)
(* analyzer's JSON result from a log-mixed output stream, invocation of    *)
(* the analyzer, the snippet directory with its provenance map, and the    *)
(* remapping of findings.                                                  *)
(*                                                                         *)
(* Text is a sequence of one-character strings.  A few elements stand for  *)
(* a whole word of letters ("findings", a long run of log text); Width     *)
(* gives the number of characters such an element stands for.              *)
(***************************************************************************)
EXTENDS Integers, Sequences, FiniteSets, TLC

VARIABLES
    nIn,        \* normalize_sql: the raw input text
    nOut,       \* normalize_sql(nIn), once computed
    nOut2,      \* normalize_sql(nOut), once computed
    nPc,        \* "in", "once", "twice"
    pLog,       \* result extraction: the log lines at the head of the stream
    pTail,      \* ... and what follows them
    pOut,       \* the captured output stream (stdout)
    pPc,        \* "t1", "t2", "t3", "ok", "raised", "notfound"
    pTiers,     \* the tiers entered so far, in order
    pNext,      \* tier 3: where the scan for the next candidate resumes
    pTried,     \* tier 3: the candidate positions examined so far
    pValue,     \* the parsed value returned, as its canonical text
    run,            \* main: which run of the pipeline this is (1, 2, ...)
    pc,             \* main: where the run is
    extract_dir,    \* how --tmp-dir spells the output directory: "rel"/"abs"
    dir,            \* the extracted_*.sql files of the output directory
    unlink_failed,  \* history: the files this run's purge could not delete
    mapping_json,   \* the output directory's mapping.json
    nfiles,         \* len(files)
    fidx,           \* how many of the files the extraction loop has passed
    snippet_count,
    mapping,
    emitted,        \* history: the units written by this run, in order
    warnings,       \* the [WARN] lines printed by this run
    calls,          \* run_astgrep: the subprocess.run calls made, in order
    result,         \* the analyzer result run_astgrep returned
    final_report,
    report_json,        \* the output directory's report.json
    final_report_json,  \* the output directory's final_report.json
    status,         \* how the run ended, "running" until then
    surfaced,       \* what a fatal end printed of the analyzer's output
    jSite,      \* extract_sql_from_java: the argument pieces of the call site
    jAnnot,     \* ... whether an @Select annotation precedes the call
    jCode,      \* ... the Java source text
    jUnits,     \* ... the tuples returned
    jPc,        \* "in", "done"
    xDoc,       \* extract_sql_from_xml: the markup file, token by token
    xSplit,     \* ... how many tokens lie in the first chunk iterparse reads
    xUnits,     \* ... the tuples returned
    xFailed,    \* ... whether the structured parse raised
    xPc,        \* "in", "done"
    rPc,        \* two concurrent runs: where each run is
    rGlob,      \* ... the files each run's purge has yet to unlink
    rCount,     \* ... each run's snippet_count
    rTotal,     \* ... how many units each run extracts
    rMap,       \* ... each run's mapping
    rDir,       \* ... the extracted_*.sql files of the directory they share
    rJson,      \* ... the mapping.json of that directory
    rSeen       \* ... the snippet files each run's analyzer was given

normVars == <<nIn, nOut, nOut2, nPc>>

parseVars == <<pLog, pTail, pOut, pPc, pTiers, pNext, pTried, pValue>>

\* what the purge and the extraction loop work on
dataVars ==
    <<extract_dir, dir, unlink_failed, mapping_json, nfiles, fidx,
      snippet_count, mapping, emitted, warnings>>

\* what the analysis and the remapping work on
analysisVars ==
    <<calls, result, final_report, report_json, final_report_json, status,
      surfaced>>

mainVars == <<run, pc, dataVars, analysisVars>>

javaVars == <<jSite, jAnnot, jCode, jUnits, jPc>>

xmlVars == <<xDoc, xSplit, xUnits, xFailed, xPc>>

extractVars == <<javaVars, xmlVars>>

raceVars == <<rPc, rGlob, rCount, rTotal, rMap, rDir, rJson, rSeen>>

vars == <<normVars, parseVars, mainVars, extractVars, raceVars>>

----------------------------------------------------------------------------
(* Bounds of the model *)

\* longest raw SQL text given to normalize_sql
MaxLen == 3

\* most log lines ahead of the result in an output stream
MaxLogLines == 2

\* most source files one run collects
MaxFiles == 2

\* most files one purge fails to delete
MaxUnlinkFailures == 1

----------------------------------------------------------------------------
(* The parts of the state a specification does not use stay as they are here *)

NormIdle ==
    /\ nIn = <<>>
    /\ nOut = <<>>
    /\ nOut2 = <<>>
    /\ nPc = "idle"

ParseIdle ==
    /\ pLog = <<>>
    /\ pTail = <<>>
    /\ pOut = <<>>
    /\ pPc = "idle"
    /\ pTiers = <<>>
    /\ pNext = 0
    /\ pTried = <<>>
    /\ pValue = <<>>

MainIdle ==
    /\ run = 0
    /\ pc = "idle"
    /\ extract_dir = "rel"
    /\ dir = <<>>
    /\ unlink_failed = {}
    /\ mapping_json = <<>>
    /\ nfiles = 0
    /\ fidx = 0
    /\ snippet_count = 0
    /\ mapping = <<>>
    /\ emitted = <<>>
    /\ warnings = <<>>
    /\ calls = <<>>
    /\ result = <<>>
    /\ final_report = <<>>
    /\ report_json = <<>>
    /\ final_report_json = <<>>
    /\ status = "idle"
    /\ surfaced = <<>>

JavaIdle ==
    /\ jSite = <<>>
    /\ jAnnot = FALSE
    /\ jCode = <<>>
    /\ jUnits = <<>>
    /\ jPc = "idle"

XmlIdle ==
    /\ xDoc = <<>>
    /\ xSplit = 0
    /\ xUnits = <<>>
    /\ xFailed = FALSE
    /\ xPc = "idle"

RaceIdle ==
    /\ rPc = <<>>
    /\ rGlob = <<>>
    /\ rCount = <<>>
    /\ rTotal = <<>>
    /\ rMap = <<>>
    /\ rDir = <<>>
    /\ rJson = <<>>
    /\ rSeen = <<>>

----------------------------------------------------------------------------
(* Text helpers *)

Max(a, b) == IF a >= b THEN a ELSE b

Min(a, b) == IF a <= b THEN a ELSE b

\* all sequences over S of length at most n
SeqsUpTo(S, n) == UNION {[1..k -> S] : k \in 0..n}

\* s[a..b], empty when b < a
Slice(s, a, b) == IF b < a THEN <<>> ELSE SubSeq(s, a, b)

\* str.endswith for a one-character suffix
EndsWith(s, c) == Len(s) > 0 /\ s[Len(s)] = c

\* the characters \s matches and str.strip removes
Whitespace == {" ", "\n", "\t", "\r"}

IsSpace(c) == c \in Whitespace

----------------------------------------------------------------------------
(* collapse_ws and normalize_sql *)

\* re.sub(r"\s+", " ", s): every maximal run of whitespace becomes one space
RECURSIVE SubWsRuns(_)
SubWsRuns(s) ==
    IF s = <<>> THEN <<>>
    ELSE IF IsSpace(Head(s))
         THEN IF Len(s) > 1 /\ IsSpace(s[2])
              THEN SubWsRuns(Tail(s))
              ELSE <<" ">> \o SubWsRuns(Tail(s))
         ELSE <<Head(s)>> \o SubWsRuns(Tail(s))

\* str.lstrip
RECURSIVE LStrip(_)
LStrip(s) ==
    IF s # <<>> /\ IsSpace(Head(s)) THEN LStrip(Tail(s)) ELSE s

\* str.rstrip
RECURSIVE RStrip(_)
RStrip(s) ==
    IF s # <<>> /\ IsSpace(s[Len(s)]) THEN RStrip(SubSeq(s, 1, Len(s) - 1)) ELSE s

\* str.strip
Strip(s) == RStrip(LStrip(s))

\* collapse_ws without the final strip
collapse_ws_nostrip(s) == SubWsRuns(s)

collapse_ws(s) == Strip(SubWsRuns(s))

\* normalize_sql that appends the terminator unconditionally
normalize_sql_always(sql) == collapse_ws(sql) \o <<";">>

normalize_sql(sql) ==
    LET c == collapse_ws(sql)
    IN  IF ~EndsWith(c, ";") THEN c \o <<";">> ELSE c

----------------------------------------------------------------------------
(* The characters of an output stream *)

QUOTE == "\""

BSL == "\\"

\* the letters of the key the anchor names, as one element
FINDINGS == "findings"

\* a run of log text longer than the tier-3 window, as one element; it holds
\* no brace, no quote and no backslash
LONGLOG == "xx..xx"

\* str slicing stdout[i:i+200] in tier 3
Window == 200

\* each stands for the text of one finding object of a result: a JSON object
\* with its braces and quotes balanced, without the word "findings"
FindingTokens == {"F_rel1", "F_abs1", "F_rel2", "F_nofile"}

\* the number of characters an element stands for
Width(c) ==
    IF c = FINDINGS THEN 8 ELSE IF c = LONGLOG THEN Window + 1 ELSE 1

\* the number of characters of t[a..b]
RECURSIVE CharLen(_, _, _)
CharLen(t, a, b) ==
    IF b < a THEN 0 ELSE Width(t[a]) + CharLen(t, a + 1, b)

\* t[i..] starts with p
StartsAt(t, i, p) ==
    /\ i + Len(p) - 1 <= Len(t)
    /\ \A k \in 1..Len(p) : t[i + k - 1] = p[k]

\* str.find: the first position at or after `from` where p occurs, 0 when none
\* (Python's -1)
FindFrom(t, p, from) ==
    IF \E i \in from..Len(t) : StartsAt(t, i, p)
    THEN CHOOSE i \in from..Len(t) :
             /\ StartsAt(t, i, p)
             /\ \A j \in from..(i - 1) : ~StartsAt(t, j, p)
    ELSE 0

----------------------------------------------------------------------------
(* json.loads, as a recogniser of JSON text over these characters.          *)
(* Positions are 1-based; an End operator gives the position after what it  *)
(* recognised, or 0 when the text is not JSON there.                        *)

\* json.decoder.WHITESPACE
JsonWs == {" ", "\n", "\t", "\r"}

\* unescaped control characters are refused inside a string (strict mode)
JsonCtrl == {"\n", "\t", "\r"}

\* what may follow a backslash inside a string: \" and \\, and the f that
\* begins the word "findings"
JsonEscapable == {QUOTE, BSL, FINDINGS}

RECURSIVE SkipWs(_, _)
SkipWs(t, i) ==
    IF i <= Len(t) /\ t[i] \in JsonWs THEN SkipWs(t, i + 1) ELSE i

\* i is the position after the opening quote
RECURSIVE StrEnd(_, _)
StrEnd(t, i) ==
    IF i > Len(t) THEN 0
    ELSE IF t[i] = QUOTE THEN i + 1
    ELSE IF t[i] = BSL
         THEN IF i + 1 <= Len(t) /\ t[i + 1] \in JsonEscapable
              THEN StrEnd(t, i + 2)
              ELSE 0
    ELSE IF t[i] \in JsonCtrl THEN 0
    ELSE StrEnd(t, i + 1)

RECURSIVE ValueEnd(_, _)
RECURSIVE MembersEnd(_, _, _)
RECURSIVE ElemsEnd(_, _, _)

\* i is the position of the value's first character
ValueEnd(t, i) ==
    IF i > Len(t) THEN 0
    ELSE IF t[i] = "{" THEN MembersEnd(t, SkipWs(t, i + 1), TRUE)
    ELSE IF t[i] = "[" THEN ElemsEnd(t, SkipWs(t, i + 1), TRUE)
    ELSE IF t[i] = QUOTE THEN StrEnd(t, i + 1)
    ELSE IF t[i] = "0" THEN i + 1
    ELSE IF t[i] \in FindingTokens THEN i + 1
    ELSE 0

\* the members of an object, from position i to its closing brace
MembersEnd(t, i, first) ==
    IF i > Len(t) THEN 0
    ELSE IF first /\ t[i] = "}" THEN i + 1
    ELSE IF t[i] # QUOTE THEN 0
    ELSE LET k == StrEnd(t, i + 1)
             c == SkipWs(t, k)
             v == ValueEnd(t, SkipWs(t, c + 1))
             a == SkipWs(t, v)
         IN  IF k = 0 \/ c > Len(t) THEN 0
             ELSE IF t[c] # ":" THEN 0
             ELSE IF v = 0 \/ a > Len(t) THEN 0
             ELSE IF t[a] = "}" THEN a + 1
             ELSE IF t[a] = "," THEN MembersEnd(t, SkipWs(t, a + 1), FALSE)
             ELSE 0

\* the elements of an array, from position i to its closing bracket
ElemsEnd(t, i, first) ==
    IF i > Len(t) THEN 0
    ELSE IF first /\ t[i] = "]" THEN i + 1
    ELSE LET v == ValueEnd(t, i)
             a == SkipWs(t, v)
         IN  IF v = 0 \/ a > Len(t) THEN 0
             ELSE IF t[a] = "]" THEN a + 1
             ELSE IF t[a] = "," THEN ElemsEnd(t, SkipWs(t, a + 1), FALSE)
             ELSE 0

\* json.loads(t) returns (rather than raising JSONDecodeError)
JsonOk(t) ==
    LET e == ValueEnd(t, SkipWs(t, 1))
    IN  e # 0 /\ SkipWs(t, e) = Len(t) + 1

\* the value json.loads(t) returns, as t without the whitespace around its
\* tokens
RECURSIVE Canon(_, _, _)
Canon(t, in_str, esc) ==
    IF t = <<>> THEN <<>>
    ELSE LET ch == Head(t)
         IN  IF in_str
             THEN <<ch>> \o Canon(Tail(t), esc \/ ch # QUOTE,
                                  ~esc /\ ch = BSL)
             ELSE IF ch \in JsonWs THEN Canon(Tail(t), FALSE, FALSE)
             ELSE <<ch>> \o Canon(Tail(t), ch = QUOTE, FALSE)

json_loads(t) == Canon(t, FALSE, FALSE)

----------------------------------------------------------------------------
(* _extract_balanced_braces *)

\* the scan of lines 176-193 from position i with the scanner's state; the
\* position of the brace that brings the depth back to 0, or 0 when the text
\* ends first
RECURSIVE BalancedEnd(_, _, _, _, _)
BalancedEnd(t, i, depth, in_str, esc) ==
    IF i > Len(t) THEN 0
    ELSE LET ch == t[i]
         IN  IF in_str
             THEN IF esc THEN BalancedEnd(t, i + 1, depth, TRUE, FALSE)
                  ELSE IF ch = BSL THEN BalancedEnd(t, i + 1, depth, TRUE, TRUE)
                  ELSE IF ch = QUOTE THEN BalancedEnd(t, i + 1, depth, FALSE, FALSE)
                  ELSE BalancedEnd(t, i + 1, depth, TRUE, FALSE)
             ELSE IF ch = QUOTE THEN BalancedEnd(t, i + 1, depth, TRUE, esc)
                  ELSE IF ch = "{" THEN BalancedEnd(t, i + 1, depth + 1, FALSE, esc)
                  ELSE IF ch = "}"
                       THEN IF depth - 1 = 0 THEN i
                            ELSE BalancedEnd(t, i + 1, depth - 1, FALSE, esc)
                  ELSE BalancedEnd(t, i + 1, depth, FALSE, esc)

\* the scan of lines 176-193 with no escape state: a backslash in a string
\* is a character like any other
RECURSIVE BalancedEndNoEscape(_, _, _, _)
BalancedEndNoEscape(t, i, depth, in_str) ==
    IF i > Len(t) THEN 0
    ELSE LET ch == t[i]
         IN  IF in_str
             THEN BalancedEndNoEscape(t, i + 1, depth, ch # QUOTE)
             ELSE IF ch = QUOTE THEN BalancedEndNoEscape(t, i + 1, depth, TRUE)
                  ELSE IF ch = "{"
                       THEN BalancedEndNoEscape(t, i + 1, depth + 1, FALSE)
                  ELSE IF ch = "}"
                       THEN IF depth - 1 = 0 THEN i
                            ELSE BalancedEndNoEscape(t, i + 1, depth - 1, FALSE)
                  ELSE BalancedEndNoEscape(t, i + 1, depth, FALSE)

\* None is the empty text: a span returned always holds its braces
None == <<>>

\* lines 172-194 with lines 180-183 left out
_extract_balanced_braces_no_escape(text, start_idx) ==
    LET e == BalancedEndNoEscape(text, start_idx, 0, FALSE)
    IN  IF e = 0 THEN None ELSE SubSeq(text, start_idx, e)

_extract_balanced_braces(text, start_idx) ==
    LET e == BalancedEnd(text, start_idx, 0, FALSE, FALSE)
    IN  IF e = 0 THEN None ELSE SubSeq(text, start_idx, e)

----------------------------------------------------------------------------
(* _parse_astgrep_mixed_output, one tier (and in tier 3 one candidate) per  *)
(* step                                                                     *)

\* '{"findings"'
anchor == <<"{", QUOTE, FINDINGS, QUOTE>>

\* '"findings"'
findings_token == <<QUOTE, FINDINGS, QUOTE>>

\* '"findings"' in stdout[i:i+200]
InWindow(stdout, i) ==
    \E j \in i..Len(stdout) :
        /\ StartsAt(stdout, j, findings_token)
        /\ CharLen(stdout, i, j + 2) <= Window

\* the '{' of re.finditer(r'\{', stdout) at or after `from` that pass the test
\* of line 213
Candidates(stdout, from) ==
    {i \in from..Len(stdout) : stdout[i] = "{" /\ InWindow(stdout, i)}

SetMin(S) == CHOOSE x \in S : \A y \in S : x <= y

EnterTier(tiers, n) ==
    IF \E k \in 1..Len(tiers) : tiers[k] = n THEN tiers ELSE Append(tiers, n)

\* what a tier makes of the stream: a value returned ("ok"), a
\* JSONDecodeError that leaves the function ("raised"), or nothing yet ("next")
Returned(v) == [kind |-> "ok", value |-> v]

Raised == [kind |-> "raised", value |-> None]

NextTier == [kind |-> "next", value |-> None]

\* return json.loads(block), lines 209 and 216: not guarded, so a span that
\* is not JSON raises out of the function
LoadBlock(block) ==
    IF JsonOk(block) THEN Returned(json_loads(block)) ELSE Raised

\* lines 199-202 taking only an object with a findings member
Tier1ResultFindingsOnly(stdout) ==
    IF JsonOk(stdout) /\ FindFrom(stdout, anchor, 1) = 1
    THEN Returned(json_loads(stdout)) ELSE NextTier

\* lines 199-202: the whole stream as one JSON text, errors passed over
Tier1Result(stdout) ==
    IF JsonOk(stdout) THEN Returned(json_loads(stdout)) ELSE NextTier

\* lines 204-209: the anchor and the balanced span from it
Tier2Result(stdout) ==
    LET idx == FindFrom(stdout, anchor, 1)
        block == IF idx # 0 THEN _extract_balanced_braces(stdout, idx) ELSE None
    IN  IF idx # 0 /\ block # None THEN LoadBlock(block) ELSE NextTier

\* lines 214-216 for the candidate at i
Tier3Try(stdout, i) ==
    LET block == _extract_balanced_braces(stdout, i)
    IN  IF block # None THEN LoadBlock(block) ELSE NextTier

\* lines 211-217 from position `from` on
RECURSIVE Tier3Result(_, _)
Tier3Result(stdout, from) ==
    IF Candidates(stdout, from) = {}
    THEN [kind |-> "notfound", value |-> None]
    ELSE LET i == SetMin(Candidates(stdout, from))
             r == Tier3Try(stdout, i)
         IN  IF r.kind = "next" THEN Tier3Result(stdout, i + 1) ELSE r

\* the function as a whole: kind is "ok", "raised" (JSONDecodeError) or
\* "notfound" (the ValueError of line 217)
_parse_astgrep_mixed_output(stdout) ==
    LET r1 == Tier1Result(stdout)
        r2 == Tier2Result(stdout)
    IN  IF r1.kind # "next" THEN r1
        ELSE IF r2.kind # "next" THEN r2
        ELSE Tier3Result(stdout, 1)

\* the same, one tier (and in tier 3 one candidate) per step
Tier1 ==
    /\ pPc = "t1"
    /\ pTiers' = EnterTier(pTiers, 1)
    /\ LET r == Tier1Result(pOut)
       IN  /\ pPc' = IF r.kind = "next" THEN "t2" ELSE r.kind
           /\ pValue' = r.value
    /\ UNCHANGED <<pLog, pTail, pOut, pNext, pTried, normVars, mainVars, extractVars, raceVars>>

Tier2 ==
    /\ pPc = "t2"
    /\ pTiers' = EnterTier(pTiers, 2)
    /\ LET r == Tier2Result(pOut)
       IN  /\ pPc' = IF r.kind = "next" THEN "t3" ELSE r.kind
           /\ pValue' = r.value
    /\ pNext' = 1
    /\ UNCHANGED <<pLog, pTail, pOut, pTried, normVars, mainVars, extractVars, raceVars>>

Tier3Candidate ==
    /\ pPc = "t3"
    /\ Candidates(pOut, pNext) # {}
    /\ pTiers' = EnterTier(pTiers, 3)
    /\ LET i == SetMin(Candidates(pOut, pNext))
           r == Tier3Try(pOut, i)
       IN  /\ pTried' = Append(pTried, i)
           /\ pNext' = i + 1
           /\ pPc' = IF r.kind = "next" THEN "t3" ELSE r.kind
           /\ pValue' = r.value
    /\ UNCHANGED <<pLog, pTail, pOut, normVars, mainVars, extractVars, raceVars>>

\* line 217: no candidate is left
Tier3Exhausted ==
    /\ pPc = "t3"
    /\ Candidates(pOut, pNext) = {}
    /\ pTiers' = EnterTier(pTiers, 3)
    /\ pPc' = "notfound"
    /\ UNCHANGED <<pLog, pTail, pOut, pNext, pTried, pValue, normVars, mainVars, extractVars, raceVars>>

ParseNext == Tier1 \/ Tier2 \/ Tier3Candidate \/ Tier3Exhausted

----------------------------------------------------------------------------
(* Output streams: log lines, then a result object or something else *)

RECURSIVE Flatten(_)
Flatten(ss) == IF ss = <<>> THEN <<>> ELSE Head(ss) \o Flatten(Tail(ss))

\* lines of log text, none of them JSON
LogLines ==
    { <<"x", "\n">>,
      <<"{", "x", "}", "\n">>,
      <<"x", "{", "\n">>,
      <<"x", QUOTE, "\n">>,
      <<LONGLOG, "\n">>,
      <<"{", QUOTE, FINDINGS, QUOTE, "x", "}", "\n">> }

\* {"findings":[]}
ResultPlain ==
    <<"{", QUOTE, FINDINGS, QUOTE, ":", "[", "]", "}">>

\* {"a":0,"findings":[0]} and a final newline
ResultSecondKey ==
    <<"{", QUOTE, "a", QUOTE, ":", "0", ",",
      QUOTE, FINDINGS, QUOTE, ":", "[", "0", "]", "}", "\n">>

\* {"a":"}","findings":[]}
ResultQuotedBrace ==
    <<"{", QUOTE, "a", QUOTE, ":", QUOTE, "}", QUOTE, ",",
      QUOTE, FINDINGS, QUOTE, ":", "[", "]", "}">>

\* {"a":"xx..xx","b":{},"findings":[]}
ResultFarKeyNested ==
    <<"{", QUOTE, "a", QUOTE, ":", QUOTE, LONGLOG, QUOTE, ",",
      QUOTE, "b", QUOTE, ":", "{", "}", ",",
      QUOTE, FINDINGS, QUOTE, ":", "[", "]", "}">>

\* {"a":"xx..xx","findings":[]}
ResultFarKey ==
    <<"{", QUOTE, "a", QUOTE, ":", QUOTE, LONGLOG, QUOTE, ",",
      QUOTE, FINDINGS, QUOTE, ":", "[", "]", "}">>

\* valid result objects with a findings collection
ResultObjects ==
    {ResultPlain, ResultSecondKey, ResultQuotedBrace, ResultFarKeyNested,
     ResultFarKey}

\* {"a":0}: a JSON object without a findings collection
ObjectNoFindings == <<"{", QUOTE, "a", QUOTE, ":", "0", "}">>

\* what else may end a stream: nothing, text, a cut-off result, a JSON
\* number, an empty JSON array, a JSON object without findings
OtherTails ==
    { <<>>,
      <<"x">>,
      <<"{", QUOTE, FINDINGS, QUOTE, ":", "[">>,
      <<"0">>,
      <<"[", "]", "\n">>,
      ObjectNoFindings }

ParseInit ==
    /\ pLog \in SeqsUpTo(LogLines, MaxLogLines)
    /\ pTail \in ResultObjects \cup OtherTails
    /\ pOut = Flatten(pLog) \o pTail
    /\ pPc = "t1"
    /\ pTiers = <<>>
    /\ pNext = 0
    /\ pTried = <<>>
    /\ pValue = <<>>
    /\ NormIdle
    /\ MainIdle
    /\ JavaIdle
    /\ XmlIdle
    /\ RaceIdle

SpecParse == ParseInit /\ [][ParseNext]_vars

\* the function has returned or raised
ParseDone == pPc \in {"ok", "raised", "notfound"}

\* the steps end as the function does
StepsAgree ==
    ParseDone =>
        LET r == _parse_astgrep_mixed_output(pOut)
        IN  pPc = r.kind /\ pValue = r.value

\* C2: log lines followed by one valid result object with a findings
\* collection: extraction succeeds and returns that object.
C2_LogsThenResultParses ==
    (ParseDone /\ pTail \in ResultObjects) =>
        (pPc = "ok" /\ pValue = json_loads(pTail))

\* C3: extraction fails only after tiers 1, 2 and 3 have each been entered;
\* a tier that yields no parsed object hands over to the next.
C3_FailsOnlyAfterAllTiers ==
    (ParseDone /\ pPc # "ok") => pTiers = <<1, 2, 3>>

\* C4: in tier 3 a candidate whose balanced span does not parse does not end
\* the search while a later candidate's span would parse.
C4_LaterCandidateStillTried ==
    (ParseDone /\ pPc # "ok" /\ pTried # <<>>) =>
        \A i \in Candidates(pOut, pTried[Len(pTried)] + 1) :
            LET block == _extract_balanced_braces(pOut, i)
            IN  ~(block # None /\ JsonOk(block))

\* C30: when the whole stream is one JSON text, extraction ends in tier 1
\* with the value of that text, an object or not, with findings or not;
\* tiers 2 and 3 are not entered and no exception leaves the function, so
\* run_astgrep returns that value.
C30_WholeStreamReturned ==
    (ParseDone /\ JsonOk(pOut)) =>
        /\ pPc = "ok"
        /\ pValue = json_loads(pOut)
        /\ pTiers = <<1>>
        /\ pTried = <<>>
        /\ _parse_astgrep_mixed_output(pOut) = Returned(json_loads(pOut))

\* C30 witness: the stream is an object without findings, returned by tier 1.
C30_Witness ==
    /\ pPc = "ok"
    /\ pLog = <<>>
    /\ pOut = ObjectNoFindings
    /\ pTiers = <<1>>
    /\ pValue = ObjectNoFindings

----------------------------------------------------------------------------
(* _extract_balanced_braces applied to every short text, from every opening *)
(* brace in it                                                              *)

\* longest text given to _extract_balanced_braces
MaxText == 5

\* the characters of these texts: the braces, the quote, the backslash, and
\* another one
BraceChars == {"{", "}", QUOTE, BSL, "x"}

BracesInit ==
    /\ pOut \in SeqsUpTo(BraceChars, MaxText)
    /\ pNext \in {i \in 1..MaxText : i <= Len(pOut) /\ pOut[i] = "{"}
    /\ pPc = "braces"
    /\ pValue = None
    /\ pLog = <<>>
    /\ pTail = <<>>
    /\ pTiers = <<>>
    /\ pTried = <<>>
    /\ NormIdle
    /\ MainIdle
    /\ JavaIdle
    /\ XmlIdle
    /\ RaceIdle

\* the call of lines 207 and 215 on the text pOut at the brace pNext
ExtractBraces ==
    /\ pPc = "braces"
    /\ pValue' = _extract_balanced_braces(pOut, pNext)
    /\ pPc' = "span"
    /\ UNCHANGED <<pLog, pTail, pOut, pTiers, pNext, pTried, normVars,
                   mainVars, extractVars, raceVars>>

BracesNext == ExtractBraces

SpecBraces == BracesInit /\ [][BracesNext]_vars

----------------------------------------------------------------------------
(* Properties of _extract_balanced_braces *)

\* the number of backslashes that end at position k - 1 of t, not counting
\* those before position `low`
RECURSIVE BackslashesBefore(_, _, _)
BackslashesBefore(t, k, low) ==
    IF k - 1 < low \/ t[k - 1] # BSL THEN 0
    ELSE 1 + BackslashesBefore(t, k - 1, low)

\* the quote that closes the string opened at q: the first one after q with
\* an even number of backslashes before it; Len(t) + 1 when there is none
ClosingQuote(t, q) ==
    LET ends == {e \in (q + 1)..Len(t) :
                     t[e] = QUOTE /\ BackslashesBefore(t, e, q + 1) % 2 = 0}
    IN  IF ends = {} THEN Len(t) + 1 ELSE SetMin(ends)

\* the quoted strings of t from position k on, each as the pair of the
\* positions of its quotes
RECURSIVE QuotedFrom(_, _)
QuotedFrom(t, k) ==
    LET opens == {q \in k..Len(t) : t[q] = QUOTE}
    IN  IF opens = {} THEN {}
        ELSE LET q == SetMin(opens)
                 e == ClosingQuote(t, q)
             IN  {<<q, e>>} \cup QuotedFrom(t, e + 1)

\* the braces c of t[i..j] that are in no quoted string
BracesOutside(t, i, j, c) ==
    {k \in i..j : t[k] = c /\ \A s \in QuotedFrom(t, i) : k < s[1] \/ k > s[2]}

\* the ends j of the spans t[i..j] whose braces outside quoted strings are
\* balanced
BalancedEnds(t, i) ==
    {j \in i..Len(t) :
         Cardinality(BracesOutside(t, i, j, "{"))
             = Cardinality(BracesOutside(t, i, j, "}"))}

\* C26: from an opening brace, _extract_balanced_braces returns the shortest
\* span whose braces outside quoted strings are balanced, a quote after a
\* backslash not ending the string, and None when no span from the brace is
\* balanced.
C26_ShortestBalancedSpan ==
    pPc = "span" =>
        LET ends == BalancedEnds(pOut, pNext)
        IN  IF ends = {} THEN pValue = None
            ELSE pValue = SubSeq(pOut, pNext, SetMin(ends))

\* C26 witness: the span returned goes past the closing brace in a quoted
\* string and ends at the one after it.
C26_Witness ==
    /\ pPc = "span"
    /\ pOut = <<"{", QUOTE, "}", QUOTE, "}">>
    /\ pNext = 1
    /\ pValue = pOut

----------------------------------------------------------------------------
(* extract_sql_from_java *)

\* the pieces of a call's argument expression
MaxPieces == 3

\* one of the API names of JAVA_METHOD_PATTERN, and "@Select", each as one
\* element of the source text
API == "executeQuery"

ANNOT == "@Select"

APOS == "'"

\* \w, for the \b in front of the API name
WordChars == {"a", "v", "f", "n", "r", "t", API}

\* s.replace(<<a, b>>, r)
RECURSIVE Replace2(_, _, _, _)
Replace2(s, a, b, r) ==
    IF Len(s) < 2 THEN s
    ELSE IF s[1] = a /\ s[2] = b
         THEN r \o Replace2(SubSeq(s, 3, Len(s)), a, b, r)
         ELSE <<s[1]>> \o Replace2(Tail(s), a, b, r)

\* lines 44-46, the replacements in the order of the code
unescape_java_string(s) ==
    LET s1 == Replace2(s, BSL, QUOTE, <<QUOTE>>)
        s2 == Replace2(s1, BSL, APOS, <<APOS>>)
        s3 == Replace2(s2, BSL, "n", <<"\n">>)
        s4 == Replace2(s3, BSL, "r", <<"\r">>)
        s5 == Replace2(s4, BSL, "t", <<"\t">>)
    IN  Replace2(s5, BSL, "\n", <<"\n">>)

\* java_code.count('\n', 0, upto)
RECURSIVE CountNewlines(_, _)
CountNewlines(t, upto) ==
    IF upto < 1 THEN 0
    ELSE (IF t[upto] = "\n" THEN 1 ELSE 0) + CountNewlines(t, upto - 1)

\* the body of JAVA_STRING_LITERAL from position i on, (?:[^"\\]|\\.)*" : the
\* position of the closing quote, 0 when the text has none
RECURSIVE LiteralEnd(_, _)
LiteralEnd(t, i) ==
    IF i > Len(t) THEN 0
    ELSE IF t[i] = QUOTE THEN i
    ELSE IF t[i] = BSL
         THEN IF i + 1 <= Len(t) /\ t[i + 1] # "\n"
              THEN LiteralEnd(t, i + 2)
              ELSE 0
    ELSE LiteralEnd(t, i + 1)

\* the first match of JAVA_STRING_LITERAL at or after `from`: the positions of
\* its two quotes, start = 0 when there is none
RECURSIVE NextLiteral(_, _)
NextLiteral(t, from) ==
    IF from > Len(t) THEN [start |-> 0, end |-> 0]
    ELSE IF t[from] = QUOTE /\ LiteralEnd(t, from + 1) # 0
         THEN [start |-> from, end |-> LiteralEnd(t, from + 1)]
         ELSE NextLiteral(t, from + 1)

\* the first position at or after `from` that holds c, 0 when there is none
RECURSIVE IndexOf(_, _, _)
IndexOf(t, c, from) ==
    IF from > Len(t) THEN 0
    ELSE IF t[from] = c THEN from
    ELSE IndexOf(t, c, from + 1)

\* \s* from position i on
RECURSIVE SkipSpace(_, _)
SkipSpace(t, i) ==
    IF i <= Len(t) /\ IsSpace(t[i]) THEN SkipSpace(t, i + 1) ELSE i

\* the lazy group (.*?)\) of line 68: it ends at the first ")" there is
ClosingParen(t, from) == IndexOf(t, ")", from)

\* JAVA_METHOD_PATTERN matches at position i: the API name after a word
\* boundary, \s*, "(", and a ")" somewhere after it
MethodMatchAt(t, i) ==
    /\ t[i] = API
    /\ (i = 1 \/ t[i - 1] \notin WordChars)
    /\ LET open == SkipSpace(t, i + 1)
       IN  /\ open <= Len(t)
           /\ t[open] = "("
           /\ ClosingParen(t, open + 1) # 0

\* lines 96-111: parts and had_literal, from position `from` of arg_expr on
RECURSIVE JavaParts(_, _, _, _)
JavaParts(arg_expr, from, parts, had_literal) ==
    LET sm == NextLiteral(arg_expr, from)
    IN  IF sm.start = 0
        THEN LET tail == Slice(arg_expr, from, Len(arg_expr))
             IN  [parts |-> IF Strip(tail) # <<>>
                            THEN parts \o <<" ", "?", " ">> ELSE parts,
                  had_literal |-> had_literal]
        ELSE LET gap == Slice(arg_expr, from, sm.start - 1)
                 lit == unescape_java_string(
                            Slice(arg_expr, sm.start + 1, sm.end - 1))
                 withGap == IF Strip(gap) # <<>>
                            THEN parts \o <<" ", "?", " ">> ELSE parts
             IN  JavaParts(arg_expr, sm.end + 1, withGap \o lit, TRUE)

\* lines 91-115: the units of the method calls from position `from` on
RECURSIVE JavaCallUnits(_, _)
JavaCallUnits(java_code, from) ==
    IF from > Len(java_code) THEN <<>>
    ELSE IF ~MethodMatchAt(java_code, from)
         THEN JavaCallUnits(java_code, from + 1)
    ELSE LET open == SkipSpace(java_code, from + 1)
             close == ClosingParen(java_code, open + 1)
             arg_expr == Slice(java_code, open + 1, close - 1)
             approx_line == CountNewlines(java_code, from - 1) + 1
             p == JavaParts(arg_expr, 1, <<>>, FALSE)
             rest == JavaCallUnits(java_code, close + 1)
         IN  IF ~p.had_literal THEN rest
             ELSE <<[sql |-> normalize_sql(p.parts), line |-> approx_line,
                     ctx |-> "call"]>> \o rest

\* JAVA_ANNOT_SELECT matches at position i: where its literal lies, start = 0
\* when it does not match
AnnotMatchAt(t, i) ==
    LET open == SkipSpace(t, i + 1)
        q == SkipSpace(t, open + 1)
        e == IF q <= Len(t) /\ t[q] = QUOTE THEN LiteralEnd(t, q + 1) ELSE 0
        close == SkipSpace(t, e + 1)
    IN  IF /\ t[i] = ANNOT
           /\ open <= Len(t) /\ t[open] = "("
           /\ e # 0
           /\ close <= Len(t) /\ t[close] = ")"
        THEN [start |-> q, end |-> e, close |-> close]
        ELSE [start |-> 0, end |-> 0, close |-> 0]

\* lines 83-88: the units of the @Select annotations from position `from` on
RECURSIVE JavaAnnotUnits(_, _)
JavaAnnotUnits(java_code, from) ==
    IF from > Len(java_code) THEN <<>>
    ELSE LET m == AnnotMatchAt(java_code, from)
         IN  IF m.start = 0 THEN JavaAnnotUnits(java_code, from + 1)
             ELSE LET raw == Slice(java_code, m.start + 1, m.end - 1)
                      sql == normalize_sql(unescape_java_string(raw))
                      start_line == CountNewlines(java_code, from - 1) + 1
                  IN  <<[sql |-> sql, line |-> start_line,
                         ctx |-> "@Select"]>>
                          \o JavaAnnotUnits(java_code, m.close + 1)

\* lines 82-117 with the two loops the other way round
extract_sql_from_java_calls_first(java_code) ==
    JavaCallUnits(java_code, 1) \o JavaAnnotUnits(java_code, 1)

extract_sql_from_java(java_code) ==
    JavaAnnotUnits(java_code, 1) \o JavaCallUnits(java_code, 1)

\* what may stand between the quotes of a literal in the source: plain text,
\* parentheses, a whitespace run, a terminator, an escaped quote, an escape \n
LitContents ==
    { <<"a">>,
      <<"a", "(", "a", ")">>,
      <<"a", " ", " ", "a">>,
      <<"a", ";">>,
      <<"a", BSL, QUOTE, "a">>,
      <<"a", BSL, "n", "a">> }

\* the operands of the argument expression: a string literal, a variable, a
\* method call
Pieces ==
    {[kind |-> "lit", text |-> c] : c \in LitContents}
        \cup {[kind |-> "var", text |-> <<"v">>],
              [kind |-> "call", text |-> <<"f", "(", "v", ")">>]}

RenderPiece(p) ==
    IF p.kind = "lit" THEN <<QUOTE>> \o p.text \o <<QUOTE>> ELSE p.text

\* the operands joined by " + "
RECURSIVE RenderArgs(_)
RenderArgs(site) ==
    IF site = <<>> THEN <<>>
    ELSE IF Len(site) = 1 THEN RenderPiece(site[1])
    ELSE RenderPiece(site[1]) \o <<" ", "+", " ">> \o RenderArgs(Tail(site))

\* a Java source with one call site, after an annotation line or not
JavaSource(site, annot) ==
    (IF annot THEN <<ANNOT, "(", QUOTE, "a", QUOTE, ")", "\n">> ELSE <<>>)
        \o <<"v", ".", API, "(">> \o RenderArgs(site) \o <<")", ";">>

\* a line with a call on the literal c, a line with an annotation on it
CallLine(c) == <<"v", ".", API, "(", QUOTE, c, QUOTE, ")", ";", "\n">>

AnnotLine(c) == <<ANNOT, "(", QUOTE, c, QUOTE, ")", "\n">>

\* Java sources with calls and annotations on lines of their own: a call
\* above an annotation, the two in turns, two calls, two annotations
MixedSources ==
    { CallLine("a") \o AnnotLine("v"),
      AnnotLine("a") \o CallLine("v") \o AnnotLine("f") \o CallLine("n"),
      CallLine("a") \o CallLine("v"),
      AnnotLine("a") \o AnnotLine("v") }

----------------------------------------------------------------------------
(* main, lines 247-305: purge, collection, extraction and writing           *)

\* the runs of the pipeline against one output directory, one after another
Runs == {1, 2}

\* a dict or a directory with nothing in it
EmptyMap == [k \in {} |-> k]

\* m with m[k] = v
MapPut(m, k, v) ==
    [x \in DOMAIN m \cup {k} |-> IF x = k THEN v ELSE m[x]]

\* the decimal digits of n
RECURSIVE Digits(_)
Digits(n) == IF n < 10 THEN <<n>> ELSE Append(Digits(n \div 10), n % 10)

\* the number the digits ds write
RECURSIVE DigitsValue(_)
DigitsValue(ds) ==
    IF ds = <<>> THEN 0
    ELSE 10 * DigitsValue(SubSeq(ds, 1, Len(ds) - 1)) + ds[Len(ds)]

\* the field width of f"{snippet_count:05d}"
NameWidth == 5

\* format(n, "05d"): the digits of n, zero-filled on the left to the width
ZeroPad(n) ==
    LET ds == Digits(n)
        fill == Max(NameWidth - Len(ds), 0)
    IN  [i \in 1..(fill + Len(ds)) |-> IF i <= fill THEN 0 ELSE ds[i - fill]]

\* the file name extracted_<digits>.sql, as its digits
SnippetName(n) == ZeroPad(n)

\* str(extract_dir / name): the directory as --tmp-dir spells it, and the name
OutPath(base, name) == [base |-> base, name |-> name]

\* str(f) of the i-th collected file
SourcePath(i) == <<"src", i>>

\* a Java file whose one call site concatenates a literal and a variable
HostLiteralAndVariable ==
    JavaSource(<<[kind |-> "lit", text |-> <<"a">>],
                 [kind |-> "var", text |-> <<"v">>]>>, FALSE)

\* a Java file with a call that carries no SQL
HostNoCall == <<"v", ".", "f", "(", "v", ")", ";">>

\* two raw SQL texts and the units extraction makes of them
RawSqlA == <<"a", " ", "\n", "a">>

RawSqlB == <<"a", ";">>

UnitA == [sql |-> normalize_sql(RawSqlA), line |-> 1, ctx |-> "call"]

UnitB == [sql |-> normalize_sql(RawSqlB), line |-> 3, ctx |-> "@Select"]

\* what lines 276-286 make of one file: an exception (the file is skipped
\* with a warning) or its units, possibly none
Extractions ==
    { [ok |-> FALSE, units |-> <<>>],
      [ok |-> TRUE, units |-> extract_sql_from_java(HostNoCall)],
      [ok |-> TRUE, units |-> extract_sql_from_java(HostLiteralAndVariable)],
      [ok |-> TRUE, units |-> <<UnitA, UnitB>>] }

\* lines 293-298: the provenance entry of a unit, stored without its terminator
MappingEntryTrimmed(src, u) ==
    [source_file |-> src, approx_start_line |-> u.line, context |-> u.ctx,
     normalized_sql |-> SubSeq(u.sql, 1, Len(u.sql) - 1)]

\* lines 293-298: the provenance entry of a unit
MappingEntry(src, u) ==
    [source_file |-> src, approx_start_line |-> u.line, context |-> u.ctx,
     normalized_sql |-> u.sql]

\* lines 291-292: the header line and the SQL of a snippet file, and for the
\* record the run that wrote it
SnippetFile(r, src, u) ==
    [by |-> r, source |-> src, line |-> u.line, ctx |-> u.ctx, body |-> u.sql]

\* line 289: snippet_count += 1
NextCount(count) == count + 1

\* lines 288-298 for the units of one file: st holds snippet_count, the
\* directory, mapping and the history of what was written
RECURSIVE WriteUnits(_, _, _, _, _)
WriteUnits(st, r, base, src, units) ==
    IF units = <<>> THEN st
    ELSE LET u == Head(units)
             n == NextCount(st.count)
             name == SnippetName(n)
             out_path == OutPath(base, name)
         IN  WriteUnits(
                 [count |-> n,
                  dir |-> MapPut(st.dir, name, SnippetFile(r, src, u)),
                  mapping |-> MapPut(st.mapping, out_path, MappingEntry(src, u)),
                  emitted |-> Append(st.emitted,
                                     [name |-> name, path |-> out_path,
                                      src |-> src, unit |-> u])],
                 r, base, src, Tail(units))

\* the directory after the purge of lines 254-258: the files whose unlink
\* raised stay, the exception is passed over
PurgedDir(d, failed) == [n \in failed |-> d[n]]

\* lines 251-261: the purge of extracted_*.sql, then the fresh mapping and
\* counter
Purge ==
    /\ pc = "purge"
    /\ \E failed \in SUBSET (DOMAIN dir) :
           /\ Cardinality(failed) <= MaxUnlinkFailures
           /\ dir' = PurgedDir(dir, failed)
           /\ unlink_failed' = failed
    /\ mapping' = EmptyMap
    /\ snippet_count' = 0
    /\ pc' = "collect"
    /\ UNCHANGED <<run, extract_dir, mapping_json, nfiles, fidx, emitted, warnings>>

\* lines 263-272: the files to scan
Collect ==
    /\ pc = "collect"
    /\ nfiles' \in 0..MaxFiles
    /\ fidx' = 0
    /\ pc' = "extract"
    /\ UNCHANGED <<run, extract_dir, dir, unlink_failed, mapping_json,
                   snippet_count, mapping, emitted, warnings>>

\* lines 276-286 without the continue of line 286: the loop body goes on
\* with the units an earlier pass left in `extracted`
ExtractedNoContinue(x) == IF x.ok THEN x.units ELSE <<UnitA>>

\* lines 276-286: the units the loop body goes on with; after an exception
\* the pass ends at the continue of line 286 and writes nothing
Extracted(x) == IF x.ok THEN x.units ELSE <<>>

\* lines 275-298, one pass of the loop over files: extraction of the file,
\* then the writing of its units
ProcessFile ==
    /\ pc = "extract"
    /\ fidx < nfiles
    /\ \E x \in Extractions :
           LET src == SourcePath(fidx + 1)
               st == WriteUnits([count |-> snippet_count, dir |-> dir,
                                 mapping |-> mapping, emitted |-> emitted],
                                run, extract_dir, src, Extracted(x))
           IN  /\ snippet_count' = st.count
               /\ dir' = st.dir
               /\ mapping' = st.mapping
               /\ emitted' = st.emitted
               /\ warnings' = IF x.ok THEN warnings ELSE Append(warnings, src)
    /\ fidx' = fidx + 1
    /\ UNCHANGED <<run, pc, extract_dir, unlink_failed, mapping_json, nfiles>>

\* lines 303-308 without the early return
AfterSaveInvoke(count) == "invoke"

\* lines 303-308: where main goes on after mapping.json, by snippet_count
AfterSave(count) == IF count = 0 THEN "done" ELSE "invoke"

\* lines 303-308 with the write of mapping.json left for later
SaveMappingLater ==
    /\ pc = "extract"
    /\ fidx = nfiles
    /\ pc' = AfterSave(snippet_count)
    /\ UNCHANGED <<run, extract_dir, dir, unlink_failed, mapping_json, nfiles,
                   fidx, snippet_count, mapping, emitted, warnings>>

\* lines 300-305: mapping.json, and the early return when nothing was
\* extracted
SaveMapping ==
    /\ pc = "extract"
    /\ fidx = nfiles
    /\ mapping_json' = [by |-> run, data |-> mapping]
    /\ pc' = AfterSave(snippet_count)
    /\ UNCHANGED <<run, extract_dir, dir, unlink_failed, nfiles, fidx,
                   snippet_count, mapping, emitted, warnings>>

\* lines 307-361 as far as this part of the state goes: the analysis and the
\* remapping assign neither the snippet files nor mapping, and end the run
\* normally or with SystemExit
RestOfMain ==
    /\ pc = "invoke"
    /\ pc' \in {"done", "fatal"}
    /\ UNCHANGED <<run, dataVars, analysisVars>>

\* the process has ended; the pipeline is started again on the same directory
NextRun ==
    /\ pc \in {"done", "fatal"}
    /\ run + 1 \in Runs
    /\ run' = run + 1
    /\ pc' = "purge"
    /\ unlink_failed' = {}
    /\ nfiles' = 0
    /\ fidx' = 0
    /\ snippet_count' = 0
    /\ mapping' = EmptyMap
    /\ emitted' = <<>>
    /\ warnings' = <<>>
    /\ UNCHANGED <<extract_dir, dir, mapping_json, analysisVars>>

MainInit ==
    /\ run = 1
    /\ pc = "purge"
    /\ extract_dir \in {"rel", "abs"}
    /\ dir = EmptyMap
    /\ unlink_failed = {}
    /\ mapping_json = EmptyMap
    /\ nfiles = 0
    /\ fidx = 0
    /\ snippet_count = 0
    /\ mapping = EmptyMap
    /\ emitted = <<>>
    /\ warnings = <<>>
    /\ calls = <<>>
    /\ result = None
    /\ final_report = EmptyMap
    /\ report_json = EmptyMap
    /\ final_report_json = EmptyMap
    /\ status = "running"
    /\ surfaced = <<>>

RunsInit ==
    MainInit /\ NormIdle /\ ParseIdle /\ JavaIdle /\ XmlIdle /\ RaceIdle

RunsNext ==
    \/ (Purge /\ UNCHANGED <<extractVars, raceVars, normVars, parseVars, analysisVars>>)
    \/ (Collect /\ UNCHANGED <<extractVars, raceVars, normVars, parseVars, analysisVars>>)
    \/ (ProcessFile /\ UNCHANGED <<extractVars, raceVars, normVars, parseVars, analysisVars>>)
    \/ (SaveMapping /\ UNCHANGED <<extractVars, raceVars, normVars, parseVars, analysisVars>>)
    \/ (RestOfMain /\ UNCHANGED <<extractVars, raceVars, normVars, parseVars>>)
    \/ (NextRun /\ UNCHANGED <<extractVars, raceVars, normVars, parseVars>>)

SpecRuns == RunsInit /\ [][RunsNext]_vars

----------------------------------------------------------------------------
(* run_astgrep and main, lines 307-361: the analysis and the remapping      *)

\* the findings an analyzer result may list
MaxFindings == 2

\* the finding object a token stands for: the analyzer names the snippet file
\* relative to the working directory or absolutely, or gives no file at all
Finding(tok) ==
    CASE tok = "F_rel1" ->
             [rule_id |-> "r1", message |-> "m", severity |-> "warning",
              location |-> [file |-> OutPath("rel", SnippetName(1)),
                            start_line |-> 2, end_line |-> 2]]
      [] tok = "F_abs1" ->
             [rule_id |-> "r2", message |-> "m", severity |-> "warning",
              location |-> [file |-> OutPath("abs", SnippetName(1)),
                            start_line |-> 2, end_line |-> 2]]
      [] tok = "F_rel2" ->
             [rule_id |-> "r3", message |-> "m", severity |-> "warning",
              location |-> [file |-> OutPath("rel", SnippetName(2)),
                            start_line |-> 2, end_line |-> 2]]
      [] tok = "F_nofile" ->
             [rule_id |-> "r4", message |-> "m", severity |-> "warning",
              location |-> [start_line |-> 2, end_line |-> 2]]

\* the elements of tokens, comma-separated
RECURSIVE Join(_)
Join(toks) ==
    IF toks = <<>> THEN <<>>
    ELSE IF Len(toks) = 1 THEN toks
    ELSE <<Head(toks), ",">> \o Join(Tail(toks))

\* the text of a result object that lists the findings toks
EncodeResult(toks) ==
    <<"{", QUOTE, FINDINGS, QUOTE, ":", "[">> \o Join(toks) \o <<"]", "}">>

\* what the analyzer may print on stdout when it exits with 0
Streams ==
    {EncodeResult(toks) : toks \in SeqsUpTo(FindingTokens, MaxFindings)}
        \cup {<<"x", "\n">> \o EncodeResult(<<tok>>) : tok \in FindingTokens}
        \cup {<<"x">>, <<"0">>, <<"{", "}">>, ResultPlain,
              <<"{", "x", "}", "\n">> \o ResultSecondKey}

\* proc.stderr, as far as line 224 looks at it
Stderrs == [found_argument : BOOLEAN, dash_q : BOOLEAN]

\* what subprocess.run may return
ProcOutcomes ==
    {[returncode |-> 0, stderr |-> e, stdout |-> o] :
         e \in {[found_argument |-> FALSE, dash_q |-> FALSE],
                [found_argument |-> TRUE, dash_q |-> TRUE]},
         o \in Streams}
        \cup {[returncode |-> 2, stderr |-> e, stdout |-> <<"x">>] :
                  e \in Stderrs}

\* line 224 without the look at the exit status
RetryConditionAnyStatus(proc) ==
    proc.stderr.found_argument /\ proc.stderr.dash_q

\* line 224
RetryCondition(proc) ==
    /\ proc.returncode # 0
    /\ proc.stderr.found_argument /\ proc.stderr.dash_q

\* the proc the rest of run_astgrep looks at
LastProc == calls[Len(calls)].proc

\* lines 222-223: the invocation with -q
InvokeQuiet ==
    /\ pc = "invoke"
    /\ \E proc \in ProcOutcomes :
           calls' = Append(calls, [quiet |-> TRUE, proc |-> proc])
    /\ pc' = "invoked"
    /\ UNCHANGED <<run, dataVars, result, final_report, report_json,
                   final_report_json, status, surfaced>>

\* lines 224-227: the invocation without -q
RetryWithoutQuiet ==
    /\ pc = "invoked"
    /\ RetryCondition(LastProc)
    /\ \E proc \in ProcOutcomes :
           calls' = Append(calls, [quiet |-> FALSE, proc |-> proc])
    /\ pc' = "retried"
    /\ UNCHANGED <<run, dataVars, result, final_report, report_json,
                   final_report_json, status, surfaced>>

\* run_astgrep is past line 227
PastRetry ==
    \/ pc = "invoked" /\ ~RetryCondition(LastProc)
    \/ pc = "retried"

\* lines 229-230 with the print of line 229 only
FailureOutputStdoutOnly(proc) ==
    <<[stream |-> "stdout", text |-> proc.stdout]>>

\* lines 229-230: both captured streams are printed
FailureOutput(proc) ==
    <<[stream |-> "stdout", text |-> proc.stdout],
      [stream |-> "stderr", text |-> proc.stderr]>>

\* line 235: the message of the SystemExit holds the captured stdout
ParseFailureMessage(proc) ==
    <<[stream |-> "message", text |-> proc.stdout]>>

\* the exit status of the process: SystemExit with a message and an
\* exception that is not caught end it with 1
ExitStatus ==
    IF status \in {"astgrep failed", "parse failed", "crashed"} THEN 1 ELSE 0

\* lines 228-231: SystemExit on a non-zero exit status
AstgrepFailed ==
    /\ PastRetry
    /\ LastProc.returncode # 0
    /\ status' = "astgrep failed"
    /\ surfaced' = FailureOutput(LastProc)
    /\ pc' = "fatal"
    /\ UNCHANGED <<run, dataVars, calls, result, final_report, report_json,
                   final_report_json>>

\* lines 232-235 and 308-309: the result parsed from stdout and written to
\* report.json, or SystemExit with the output in its message
ParseOutput ==
    /\ PastRetry
    /\ LastProc.returncode = 0
    /\ LET r == _parse_astgrep_mixed_output(LastProc.stdout)
       IN  IF r.kind = "ok"
           THEN /\ result' = r.value
                /\ report_json' = [by |-> run, data |-> r.value]
                /\ pc' = "parsed"
                /\ UNCHANGED <<status, surfaced>>
           ELSE /\ status' = "parse failed"
                /\ surfaced' = ParseFailureMessage(LastProc)
                /\ pc' = "fatal"
                /\ UNCHANGED <<result, report_json>>
    /\ UNCHANGED <<run, dataVars, calls, final_report, final_report_json>>

\* a parsed value is a dict
IsDict(v) == v # <<>> /\ v[1] = "{"

\* the span of the value of the last member named key among the members of
\* an object from position i on, best when there is none
RECURSIVE MemberSpan(_, _, _, _)
MemberSpan(v, i, key, best) ==
    IF i > Len(v) \/ v[i] # QUOTE THEN best
    ELSE LET k == StrEnd(v, i + 1)
             e == ValueEnd(v, k + 1)
             here == IF Slice(v, i + 1, k - 2) = <<key>>
                     THEN [from |-> k + 1, to |-> e - 1]
                     ELSE best
         IN  IF e <= Len(v) /\ v[e] = ","
             THEN MemberSpan(v, e + 1, key, here)
             ELSE here

\* result.get(key, default)
dict_get(v, key, default) ==
    LET span == MemberSpan(v, 2, key, [from |-> 0, to |-> 0])
    IN  IF span.from = 0 THEN default ELSE SubSeq(v, span.from, span.to)

\* the elements of a list of one-character values
Elements(arr) ==
    SelectSeq(Slice(arr, 2, Len(arr) - 1), LAMBDA c : c # ",")

\* Path.cwd() / fpath, resolved: the absolute spelling of the same file
Resolve(fpath) == [base |-> "abs", name |-> fpath.name]

\* lines 319-323: the entry of fpath as the analyzer spells it, else of its
\* absolute spelling; <<>> when neither is a key
Lookup(m, fpath) ==
    IF fpath \in DOMAIN m THEN <<m[fpath]>>
    ELSE IF Resolve(fpath) \in DOMAIN m THEN <<m[Resolve(fpath)]>>
    ELSE <<>>

\* lines 329-341 with the rows of the analyzer's location kept
MappedFindingKeepRows(fd, fpath, m) ==
    [k \in DOMAIN fd \cup {"extracted_from", "context", "normalized_sql"} |->
         CASE k = "location" ->
                  [file |-> m.source_file,
                   start_line |-> fd.location.start_line,
                   end_line |-> fd.location.end_line,
                   start_column |-> 1,
                   end_column |-> 120]
           [] k = "extracted_from" -> fpath
           [] k = "context" -> m.context
           [] k = "normalized_sql" -> m.normalized_sql
           [] OTHER -> fd[k]]

\* lines 329-341: the finding with the location in the source file
MappedFinding(fd, fpath, m) ==
    LET mapped_loc == [file |-> m.source_file,
                       start_line |-> m.approx_start_line,
                       end_line |-> m.approx_start_line,
                       start_column |-> 1,
                       end_column |-> 120]
        keys == DOMAIN fd \cup {"location", "extracted_from", "context",
                                "normalized_sql"}
    IN  [k \in keys |->
             CASE k = "location" -> mapped_loc
               [] k = "extracted_from" -> fpath
               [] k = "context" -> m.context
               [] k = "normalized_sql" -> m.normalized_sql
               [] OTHER -> fd[k]]

\* lines 315-342 with line 339 done for the finding that is not resolved too
RemapFindingTagged(fd, map) ==
    LET loc == IF "location" \in DOMAIN fd THEN fd.location ELSE EmptyMap
    IN  IF "file" \notin DOMAIN loc THEN <<>>
        ELSE LET fpath == loc.file
                 m == Lookup(map, fpath)
             IN  IF m = <<>>
                 THEN <<[k \in DOMAIN fd \cup {"extracted_from"} |->
                             IF k = "extracted_from" THEN fpath ELSE fd[k]]>>
                 ELSE <<MappedFinding(fd, fpath, m[1])>>

\* lines 315-342 for one finding: what it adds to final_findings
RemapFinding(fd, map) ==
    LET loc == IF "location" \in DOMAIN fd THEN fd.location ELSE EmptyMap
    IN  IF "file" \notin DOMAIN loc THEN <<>>
        ELSE LET fpath == loc.file
                 m == Lookup(map, fpath)
             IN  IF m = <<>> THEN <<fd>>
                 ELSE <<MappedFinding(fd, fpath, m[1])>>

\* lines 313-342: final_findings
RECURSIVE RemapAll(_, _)
RemapAll(fds, map) ==
    IF fds = <<>> THEN <<>>
    ELSE RemapFinding(Head(fds), map) \o RemapAll(Tail(fds), map)

\* the elements of result.get('findings', []), one token per finding
FindingTokensOf(res) == Elements(dict_get(res, FINDINGS, <<"[", "]">>))

\* lines 312-342 end in an AttributeError or a TypeError: the result is no
\* dict, its findings no list, or an element of it no dict
RemapCrashes(res) ==
    \/ ~IsDict(res)
    \/ dict_get(res, FINDINGS, <<"[", "]">>)[1] # "["
    \/ \E k \in 1..Len(FindingTokensOf(res)) :
           FindingTokensOf(res)[k] \notin FindingTokens

\* the findings of the analyzer's result
FindingsOf(res) ==
    [k \in 1..Len(FindingTokensOf(res)) |-> Finding(FindingTokensOf(res)[k])]

\* lines 347-351 with the files counted by the snippets they gave
ExtractionSummaryBySnippets(count, n, d) ==
    [snippets |-> count, sources_scanned |-> count, tmp_dir |-> d]

\* lines 347-351: the extraction part of the final report, from
\* snippet_count, len(files) and the snippet directory
ExtractionSummary(count, n, d) ==
    [snippets |-> count, sources_scanned |-> n, tmp_dir |-> d]

\* lines 312-361: the findings mapped back, final_report.json and the summary
Remap ==
    /\ pc = "parsed"
    /\ IF RemapCrashes(result)
       THEN /\ status' = "crashed"
            /\ pc' = "crashed"
            /\ UNCHANGED <<final_report, final_report_json>>
       ELSE LET final_findings == RemapAll(FindingsOf(result), mapping)
                report == [findings |-> final_findings,
                           summary |-> dict_get(result, "summary",
                                                <<"{", "}">>),
                           extraction |-> ExtractionSummary(
                                              snippet_count, nfiles,
                                              extract_dir)]
            IN  /\ final_report' = report
                /\ final_report_json' = [by |-> run, data |-> report]
                /\ status' = "reported"
                /\ pc' = "done"
    /\ UNCHANGED <<run, dataVars, calls, result, report_json, surfaced>>

Init ==
    MainInit /\ NormIdle /\ ParseIdle /\ JavaIdle /\ XmlIdle /\ RaceIdle

Next ==
    \/ (Purge /\ UNCHANGED <<extractVars, raceVars, normVars, parseVars, analysisVars>>)
    \/ (Collect /\ UNCHANGED <<extractVars, raceVars, normVars, parseVars, analysisVars>>)
    \/ (ProcessFile /\ UNCHANGED <<extractVars, raceVars, normVars, parseVars, analysisVars>>)
    \/ (SaveMapping /\ UNCHANGED <<extractVars, raceVars, normVars, parseVars, analysisVars>>)
    \/ (InvokeQuiet /\ UNCHANGED <<extractVars, raceVars, normVars, parseVars>>)
    \/ (RetryWithoutQuiet /\ UNCHANGED <<extractVars, raceVars, normVars, parseVars>>)
    \/ (AstgrepFailed /\ UNCHANGED <<extractVars, raceVars, normVars, parseVars>>)
    \/ (ParseOutput /\ UNCHANGED <<extractVars, raceVars, normVars, parseVars>>)
    \/ (Remap /\ UNCHANGED <<extractVars, raceVars, normVars, parseVars>>)

Spec == Init /\ [][Next]_vars

----------------------------------------------------------------------------
(* Properties of the analysis and the remapping *)

\* run_astgrep has returned or raised
AstgrepReturned == pc \in {"parsed", "done", "crashed", "fatal"} /\ calls # <<>>

\* C1 as stated: the final report has one finding for each finding of the
\* analyzer's result, none dropped.
C1_NoFindingDropped ==
    (pc = "done" /\ status = "reported") =>
        Len(final_report.findings) = Len(FindingsOf(result))

\* C5: the first invocation has the quiet flag; a second one is made only
\* after the first exited non-zero with the unsupported-flag message, it is
\* made then, and without the flag; there is no third; a non-zero exit of
\* the invocation that counts ends the run with the fatal exit.
C5_QuietThenOneRetry ==
    /\ Len(calls) <= 2
    /\ Len(calls) >= 1 => calls[1].quiet
    /\ Len(calls) = 2 =>
           /\ ~calls[2].quiet
           /\ calls[1].proc.returncode # 0
           /\ calls[1].proc.stderr.found_argument
           /\ calls[1].proc.stderr.dash_q
    /\ AstgrepReturned =>
           /\ (/\ calls[1].proc.returncode # 0
               /\ calls[1].proc.stderr.found_argument
               /\ calls[1].proc.stderr.dash_q) => Len(calls) = 2
           /\ LastProc.returncode # 0 =>
                  pc = "fatal" /\ status = "astgrep failed"
           /\ pc \in {"parsed", "done", "crashed"} => LastProc.returncode = 0

\* C5 witness: the quiet invocation failed on the flag, the retry without it
\* exited with 0 and its output was parsed.
C5_Witness ==
    /\ pc = "parsed"
    /\ Len(calls) = 2
    /\ calls[1].quiet /\ calls[1].proc.returncode # 0
    /\ ~calls[2].quiet /\ calls[2].proc.returncode = 0

\* the findings of the result that name a file: those lines 317-318 let
\* through
KeptFindings ==
    SelectSeq(FindingsOf(result),
              LAMBDA fd : "file" \in DOMAIN fd.location)

\* the run has written its final report
Reported == pc = "done" /\ status = "reported"

\* the snippets this run wrote under the path key
WrittenAs(key) == {j \in 1..Len(emitted) : emitted[j].path = key}

\* the key of the provenance map under which a reported path is found:
\* the path as reported, else its absolute form
KeysFor(fpath) ==
    IF fpath \in DOMAIN mapping THEN {fpath}
    ELSE IF Resolve(fpath) \in DOMAIN mapping THEN {Resolve(fpath)}
    ELSE {}

\* C17: the final report's copy of a finding whose path is found in the
\* provenance map has the source file and the approximate line of the unit
\* written under that path (as start and end row, columns 1 and 120), the
\* reported path as extracted_from, the unit's context and normalized SQL,
\* and the finding's rule_id, message and severity.
C17_ResolvedFindingRemapped ==
    Reported =>
        /\ Len(final_report.findings) = Len(KeptFindings)
        /\ \A k \in 1..Len(KeptFindings) :
               LET fd == KeptFindings[k]
                   out == final_report.findings[k]
               IN  \A key \in KeysFor(fd.location.file) :
                       \A j \in WrittenAs(key) :
                           /\ DOMAIN out = DOMAIN fd \cup {"extracted_from",
                                  "context", "normalized_sql"}
                           /\ DOMAIN out.location = {"file", "start_line",
                                  "end_line", "start_column", "end_column"}
                           /\ out.location.file = emitted[j].src
                           /\ out.location.start_line = emitted[j].unit.line
                           /\ out.location.end_line = emitted[j].unit.line
                           /\ out.location.start_column = 1
                           /\ out.location.end_column = 120
                           /\ out.extracted_from = fd.location.file
                           /\ out.context = emitted[j].unit.ctx
                           /\ out.normalized_sql = emitted[j].unit.sql
                           /\ out.rule_id = fd.rule_id
                           /\ out.message = fd.message
                           /\ out.severity = fd.severity

\* C17 witness: a report with a finding remapped to the second unit of a
\* file, found under the absolute form of the reported path.
C17_Witness ==
    /\ Reported
    /\ extract_dir = "abs"
    /\ Len(KeptFindings) = 1
    /\ KeptFindings[1].location.file = OutPath("rel", SnippetName(2))
    /\ Len(final_report.findings) = 1
    /\ final_report.findings[1].location.start_line = 3
    /\ final_report.findings[1].normalized_sql = <<"a", ";">>

\* C18: the final report's copy of a finding whose path is not in the
\* provenance map, as reported or in its absolute form, is the analyzer's
\* finding: same fields, same location, nothing added.
C18_UnresolvedFindingUntouched ==
    Reported =>
        /\ Len(final_report.findings) = Len(KeptFindings)
        /\ \A k \in 1..Len(KeptFindings) :
               LET fd == KeptFindings[k]
                   out == final_report.findings[k]
               IN  KeysFor(fd.location.file) = {} =>
                       /\ DOMAIN out = DOMAIN fd
                       /\ DOMAIN out.location = DOMAIN fd.location
                       /\ out.location.file.base = fd.location.file.base
                       /\ out.location.file.name = fd.location.file.name
                       /\ out.location.start_line = fd.location.start_line
                       /\ out.location.end_line = fd.location.end_line
                       /\ out.rule_id = fd.rule_id
                       /\ out.message = fd.message
                       /\ out.severity = fd.severity

\* C18 witness: a report that passes through a finding on a snippet the run
\* did not write, after one that was remapped.
C18_Witness ==
    /\ Reported
    /\ snippet_count = 1
    /\ Len(KeptFindings) = 2
    /\ KeptFindings[2].location.file = OutPath("rel", SnippetName(2))
    /\ KeysFor(KeptFindings[1].location.file) # {}
    /\ Len(final_report.findings) = 2
    /\ "extracted_from" \notin DOMAIN final_report.findings[2]
    /\ "extracted_from" \in DOMAIN final_report.findings[1]

\* C19 as stated: a finding whose reported path names the file of a key of
\* the provenance map, the one relative to the working directory and the
\* other absolute, is remapped.
C19_EitherDirectionResolved ==
    Reported =>
        /\ Len(final_report.findings) = Len(KeptFindings)
        /\ \A k \in 1..Len(KeptFindings) :
               (\E key \in DOMAIN mapping :
                    key.name = KeptFindings[k].location.file.name) =>
                   "extracted_from" \in DOMAIN final_report.findings[k]

\* C20 as stated: a fatal end on the analyzer's exit status or on its output
\* ends the run with a non-zero status and shows the captured stdout and the
\* captured stderr.
C20_BothStreamsSurfaced ==
    pc = "fatal" =>
        /\ ExitStatus # 0
        /\ \E i \in 1..Len(surfaced) : surfaced[i].text = LastProc.stdout
        /\ \E i \in 1..Len(surfaced) :
               /\ surfaced[i].stream = "stderr"
               /\ surfaced[i].text = LastProc.stderr

\* C20 amended: a fatal end ends the run with a non-zero status; on a
\* non-zero exit status of the analyzer both captured streams are printed as
\* they are, on a failure to extract the result the captured stdout is shown
\* in the message and the captured stderr is not shown.
C20_FatalOutput ==
    pc = "fatal" =>
        /\ ExitStatus # 0
        /\ status \in {"astgrep failed", "parse failed"}
        /\ status = "astgrep failed" =>
               /\ LastProc.returncode # 0
               /\ Len(surfaced) = 2
               /\ surfaced[1].stream = "stdout"
               /\ surfaced[1].text = LastProc.stdout
               /\ surfaced[2].stream = "stderr"
               /\ surfaced[2].text = LastProc.stderr
        /\ status = "parse failed" =>
               /\ LastProc.returncode = 0
               /\ _parse_astgrep_mixed_output(LastProc.stdout).kind # "ok"
               /\ Len(surfaced) = 1
               /\ surfaced[1].stream = "message"
               /\ surfaced[1].text = LastProc.stdout

\* C20 witness: the retry without the quiet flag exited non-zero and the run
\* ended on it.
C20_Witness ==
    /\ pc = "fatal"
    /\ status = "astgrep failed"
    /\ Len(calls) = 2
    /\ Len(surfaced) = 2
    /\ surfaced[2].text = calls[2].proc.stderr

----------------------------------------------------------------------------
(* Properties of the snippet directory and the provenance map *)

\* the loop of lines 275-298 has ended
WritePhaseDone ==
    \/ pc = "extract" /\ fidx = nfiles
    \/ pc \in {"invoke", "invoked", "retried", "parsed", "done", "fatal",
               "crashed"}

\* the keys of mapping that name the snippet file n
KeysOf(n) == {k \in DOMAIN mapping : k.name = n}

\* a file the purge of this run could not delete and the run did not overwrite
StaleAfterFailedUnlink(n) ==
    n \in unlink_failed /\ DigitsValue(n) > snippet_count

\* C6 as stated: once the second run's write phase is complete, every snippet
\* file in the directory was written by the second run.
C6_NoFirstRunFileLeft ==
    (run = 2 /\ WritePhaseDone) => \A n \in DOMAIN dir : dir[n].by = 2

\* what the purge of lines 254-258 does give: once the second run's write
\* phase is complete, a snippet file in the directory was written by the
\* second run unless its deletion failed in the purge (the failure is passed
\* over) and the second run did not get to its sequence id; with no failed
\* deletion none of the first run is left.
PurgeBestEffort ==
    (run = 2 /\ WritePhaseDone) =>
        /\ \A n \in DOMAIN dir : dir[n].by = 2 \/ StaleAfterFailedUnlink(n)
        /\ unlink_failed = {} => \A n \in DOMAIN dir : dir[n].by = 2

\* the first run wrote two snippets, the second run purged them and wrote one
PurgedAndRewritten ==
    /\ run = 2
    /\ pc = "extract" /\ fidx = nfiles
    /\ mapping_json # EmptyMap
    /\ mapping_json.by = 1
    /\ Cardinality(DOMAIN mapping_json.data) = 2
    /\ unlink_failed = {}
    /\ snippet_count = 1
    /\ DOMAIN dir = {SnippetName(1)}

\* the units written are named 1..N, zero-padded, in extraction order, and
\* the provenance map has one entry per unit
NamedInSequence ==
    /\ Len(emitted) = snippet_count
    /\ \A k \in 1..Len(emitted) :
           /\ Len(emitted[k].name) = NameWidth
           /\ DigitsValue(emitted[k].name) = k
           /\ emitted[k].name \in DOMAIN dir
           /\ dir[emitted[k].name].by = run
           /\ emitted[k].path \in DOMAIN mapping
    /\ Cardinality(DOMAIN mapping) = snippet_count

\* C7 as stated: after the write phase the files are named 1..N, the map has
\* N entries, and every snippet file present is the key of exactly one entry.
C7_EveryFileMapped ==
    WritePhaseDone =>
        /\ NamedInSequence
        /\ \A n \in DOMAIN dir : Cardinality(KeysOf(n)) = 1

\* what the write phase does give: the files the run wrote are named 1..N,
\* zero-padded, in extraction order, the map has exactly N entries, and every
\* snippet file present is the key of exactly one entry, except a file of an
\* earlier run whose deletion failed in the purge and whose id is above N.
EveryWrittenFileMapped ==
    WritePhaseDone =>
        /\ NamedInSequence
        /\ \A n \in DOMAIN dir :
               \/ Cardinality(KeysOf(n)) = 1 /\ dir[n].by = run
               \/ Cardinality(KeysOf(n)) = 0 /\ StaleAfterFailedUnlink(n)

\* a run that wrote three snippets from two files
ThreeSnippetsWritten ==
    /\ WritePhaseDone
    /\ snippet_count = 3
    /\ DOMAIN dir = {SnippetName(1), SnippetName(2), SnippetName(3)}
    /\ Cardinality(DOMAIN mapping) = 3

\* C8: every unit written is found again under its snippet path, with its
\* normalized SQL, source file, line and context.
C8_ProvenanceRoundTrip ==
    \A k \in 1..Len(emitted) :
        LET e == emitted[k]
        IN  /\ e.path \in DOMAIN mapping
            /\ mapping[e.path].normalized_sql = e.unit.sql
            /\ mapping[e.path].source_file = e.src
            /\ mapping[e.path].approx_start_line = e.unit.line
            /\ mapping[e.path].context = e.unit.ctx

\* C8 witness: two different units of one file, both in the map.
C8_Witness ==
    /\ Len(emitted) = 2
    /\ emitted[1].unit = UnitA
    /\ emitted[2].unit = UnitB
    /\ emitted[1].src = emitted[2].src
    /\ mapping[emitted[2].path].normalized_sql = <<"a", ";">>

----------------------------------------------------------------------------
(* Properties of a whole run *)

\* main has passed the write of mapping.json
MappingSaved ==
    pc \in {"invoke", "invoked", "retried", "parsed", "done", "fatal",
            "crashed"}

\* C21: a run whose extraction yielded no unit ends normally after
\* mapping.json: the exit status is 0, mapping.json holds the empty map of
\* this run, the analyzer was not invoked, no result was read, and no report
\* was made of remapped findings.
C21_ZeroUnitsEndNormally ==
    (MappingSaved /\ snippet_count = 0) =>
        /\ pc = "done"
        /\ ExitStatus = 0
        /\ status = "running"
        /\ surfaced = <<>>
        /\ mapping_json = [by |-> run, data |-> EmptyMap]
        /\ calls = <<>>
        /\ result = None
        /\ final_report = EmptyMap

\* C21 witness: two files were collected, one failed and one had no SQL, and
\* the run has ended.
C21_Witness ==
    /\ pc = "done"
    /\ snippet_count = 0
    /\ nfiles = 2
    /\ Len(warnings) = 1
    /\ mapping_json = [by |-> run, data |-> EmptyMap]
    /\ calls = <<>>

\* C22: the pass of the loop over a file whose extraction fails records the
\* warning and goes on to the next file; it leaves the snippet directory,
\* the provenance map, the sequence counter and the units written as they
\* were, so what the other files give is what they give without it.
C22_FailedFileSkipped ==
    [][warnings' # warnings =>
           /\ warnings' = Append(warnings, SourcePath(fidx + 1))
           /\ fidx' = fidx + 1
           /\ pc' = pc
           /\ snippet_count' = snippet_count
           /\ dir' = dir
           /\ mapping' = mapping
           /\ emitted' = emitted
           /\ \A k \in 1..Len(emitted') :
                  /\ emitted'[k].src \notin {warnings'[i] : i \in 1..Len(warnings')}
                  /\ emitted'[k].name = SnippetName(k)]_vars

\* C22 witness: the first file failed, the second gave two units, and they
\* are the snippets 1 and 2.
C22_Witness ==
    /\ WritePhaseDone
    /\ warnings = <<SourcePath(1)>>
    /\ Len(emitted) = 2
    /\ emitted[1].src = SourcePath(2)
    /\ emitted[1].name = SnippetName(1)
    /\ emitted[2].name = SnippetName(2)
    /\ snippet_count = 2
    /\ Cardinality(DOMAIN mapping) = 2

\* C23: in the final report the snippet count is the number of units the run
\* wrote and sources_scanned is the number of files collected, with or
\* without SQL in them or a failure on them; a finding reported on the path
\* of a snippet the run wrote has that path as extracted_from and the
\* snippet's source file as the file of its location.
C23_CountsEndToEnd ==
    Reported =>
        /\ final_report.extraction.snippets = Len(emitted)
        /\ final_report.extraction.snippets = Cardinality(DOMAIN dir)
        /\ final_report.extraction.sources_scanned = nfiles
        /\ nfiles >= Cardinality({emitted[j].src : j \in 1..Len(emitted)})
                         + Len(warnings)
        /\ final_report_json = [by |-> run, data |-> final_report]
        /\ Len(final_report.findings) = Len(KeptFindings)
        /\ \A k \in 1..Len(KeptFindings) :
               \A j \in WrittenAs(KeptFindings[k].location.file) :
                   /\ final_report.findings[k].extracted_from = emitted[j].path
                   /\ final_report.findings[k].location.file = emitted[j].src

\* C23 witness: two files, the first with one call site that concatenates a
\* literal and a variable, the second with no SQL; one snippet, two sources
\* scanned, and the finding on the snippet is remapped to the first file.
C23_Witness ==
    /\ Reported
    /\ nfiles = 2
    /\ warnings = <<>>
    /\ Len(emitted) = 1
    /\ emitted[1].src = SourcePath(1)
    /\ <<emitted[1].unit>> = extract_sql_from_java(HostLiteralAndVariable)
    /\ emitted[1].unit.sql = <<"a", " ", "?", ";">>
    /\ final_report.extraction.snippets = 1
    /\ final_report.extraction.sources_scanned = 2
    /\ Len(final_report.findings) = 1
    /\ final_report.findings[1].extracted_from.name = SnippetName(1)
    /\ final_report.findings[1].extracted_from.base = extract_dir
    /\ final_report.findings[1].location.file = SourcePath(1)

\* the source files the loop of lines 275-298 has been through
FilesExtracted == {SourcePath(i) : i \in 1..fidx}

\* the analyzer works on the run's complete output: the loop has ended, every
\* unit is in its snippet file, and mapping.json holds the run's map
InvokedOnCompleteOutput ==
    calls # <<>> =>
        /\ fidx = nfiles
        /\ Len(emitted) = snippet_count
        /\ \A j \in 1..Len(emitted) :
               /\ emitted[j].name \in DOMAIN dir
               /\ dir[emitted[j].name].body = emitted[j].unit.sql
        /\ mapping_json = [by |-> run, data |-> mapping]

\* findings are remapped from a result the analyzer has given
RemappedFromResult ==
    /\ result # None =>
           /\ calls # <<>>
           /\ LastProc.returncode = 0
           /\ report_json = [by |-> run, data |-> result]
    /\ final_report # EmptyMap => result # None
    /\ (pc \in {"done", "crashed"} /\ calls # <<>>) => result # None

\* C24 as stated: the stages do not overlap; no snippet is written while a
\* source file is still to be extracted, the analyzer is invoked on the
\* complete output, and findings are remapped from its result.
C24_StagesInOrder ==
    /\ fidx < nfiles => emitted = <<>> /\ dir = EmptyMap
    /\ InvokedOnCompleteOutput
    /\ RemappedFromResult

\* C24 amended: extraction and writing go file by file; the snippets written
\* are those of the files already extracted, in the order of the files, so
\* the snippets of a file are written while the later files are still to be
\* extracted; the analyzer is invoked on the complete output, and findings
\* are remapped from its result.
C24_StagesPerFile ==
    /\ \A j \in 1..Len(emitted) : emitted[j].src \in FilesExtracted
    /\ \A j, k \in 1..Len(emitted) :
           j < k => emitted[j].src[2] <= emitted[k].src[2]
    /\ \A i \in 1..fidx :
           SourcePath(i) \in {emitted[j].src : j \in 1..Len(emitted)}
               => SourcePath(i) \notin {warnings[w] : w \in 1..Len(warnings)}
    /\ InvokedOnCompleteOutput
    /\ RemappedFromResult

\* C24 witness: the two snippets of the first file are written and the second
\* file is still to be extracted.
C24_Witness ==
    /\ pc = "extract"
    /\ nfiles = 2
    /\ fidx = 1
    /\ Len(emitted) = 2
    /\ DOMAIN dir = {SnippetName(1), SnippetName(2)}
    /\ mapping_json = EmptyMap
    /\ calls = <<>>

----------------------------------------------------------------------------
(* A run on the directory an earlier run has left *)

\* what the earlier run has left: its two snippets, its mapping.json, its
\* report.json and its final_report.json
PreviousOutput ==
    WriteUnits([count |-> 0, dir |-> EmptyMap, mapping |-> EmptyMap,
                emitted |-> <<>>],
               1, "rel", SourcePath(1), <<UnitA, UnitB>>)

PreviousResult == EncodeResult(<<"F_rel1">>)

PreviousReport ==
    [findings |-> RemapAll(FindingsOf(PreviousResult), PreviousOutput.mapping),
     summary |-> <<"{", "}">>,
     extraction |-> ExtractionSummary(2, 1, "rel")]

ReportsInit ==
    /\ run = 2
    /\ pc = "purge"
    /\ extract_dir = "rel"
    /\ dir = PreviousOutput.dir
    /\ unlink_failed = {}
    /\ mapping_json = [by |-> 1, data |-> PreviousOutput.mapping]
    /\ nfiles = 0
    /\ fidx = 0
    /\ snippet_count = 0
    /\ mapping = EmptyMap
    /\ emitted = <<>>
    /\ warnings = <<>>
    /\ calls = <<>>
    /\ result = None
    /\ final_report = EmptyMap
    /\ report_json = [by |-> 1, data |-> PreviousResult]
    /\ final_report_json = [by |-> 1, data |-> PreviousReport]
    /\ status = "running"
    /\ surfaced = <<>>
    /\ NormIdle /\ ParseIdle /\ JavaIdle /\ XmlIdle /\ RaceIdle

SpecReports == ReportsInit /\ [][Next]_vars

\* the run has ended early on zero units, or on SystemExit in run_astgrep
EndedWithoutResult ==
    \/ pc = "done" /\ snippet_count = 0
    \/ pc = "fatal"

\* report.json is written by a run that has the analyzer's result, and
\* final_report.json by a run that has remapped it; a run that ends without a
\* result leaves both as the earlier run wrote them
ReportsOnlyWithResult ==
    /\ report_json.by = run =>
           /\ calls # <<>>
           /\ LastProc.returncode = 0
           /\ _parse_astgrep_mixed_output(LastProc.stdout).kind = "ok"
           /\ report_json.data = result
    /\ final_report_json.by = run =>
           /\ report_json.by = run
           /\ Reported
           /\ final_report_json.data = final_report
    /\ EndedWithoutResult =>
           /\ report_json = [by |-> 1, data |-> PreviousResult]
           /\ final_report_json = [by |-> 1, data |-> PreviousReport]

\* C28 as stated: report.json and final_report.json are written only by a run
\* that has the analyzer's result; a run that ends early or on a fatal error
\* leaves them as the earlier run wrote them, while the snippet files and
\* mapping.json are those of this run and none of the earlier run.
C28_ReportsLeftSnippetsReplaced ==
    /\ ReportsOnlyWithResult
    /\ EndedWithoutResult =>
           /\ mapping_json = [by |-> run, data |-> mapping]
           /\ \A n \in DOMAIN dir : dir[n].by = run

\* a run that ended on a fatal error of the analyzer with the earlier run's
\* reports in place and its own snippet in the directory
FatalWithPreviousReports ==
    /\ pc = "fatal"
    /\ unlink_failed = {}
    /\ snippet_count = 1
    /\ DOMAIN dir = {SnippetName(1)}
    /\ dir[SnippetName(1)].by = 2
    /\ mapping_json.by = 2
    /\ report_json.by = 1
    /\ final_report_json.by = 1

----------------------------------------------------------------------------
(* Two runs of main at the same time on one output directory.  A step is    *)
(* one access to the directory: the listing of the purge, one unlink, one   *)
(* write of a snippet file, the write of mapping.json, the analyzer's read. *)

\* most units one of the two runs extracts
MaxRaceUnits == 2

\* the two runs
Procs == {1, 2}

Other(p) == 3 - p

\* the k-th unit a run extracts
RaceUnit(k) == IF k % 2 = 1 THEN UnitA ELSE UnitB

\* the directory as an earlier run, over by now, has left it: one snippet
\* file with an id above those the two runs get to
StaleDir ==
    [n \in {SnippetName(MaxRaceUnits + 1)} |->
         SnippetFile(0, SourcePath(0), UnitA)]

\* line 256 with the file left in place
UnlinkedNothing(d, name) == d

\* line 256, old.unlink(): the directory without the file; when the file is
\* gone already the exception is passed over (lines 257-258)
Unlinked(d, name) == [n \in DOMAIN d \ {name} |-> d[n]]

RaceInit ==
    /\ rPc = [p \in Procs |-> "glob"]
    /\ rGlob = [p \in Procs |-> {}]
    /\ rCount = [p \in Procs |-> 0]
    /\ rTotal \in [Procs -> 1..MaxRaceUnits]
    /\ rMap = [p \in Procs |-> EmptyMap]
    /\ rDir = StaleDir
    /\ rJson = [by |-> 0, data |-> EmptyMap]
    /\ rSeen = [p \in Procs |-> EmptyMap]
    /\ NormIdle
    /\ ParseIdle
    /\ MainIdle
    /\ JavaIdle
    /\ XmlIdle

\* line 254: extract_dir.glob('extracted_*.sql') lists the directory
RaceGlob(p) ==
    /\ rPc[p] = "glob"
    /\ rGlob' = [rGlob EXCEPT ![p] = DOMAIN rDir]
    /\ rPc' = [rPc EXCEPT ![p] = "unlink"]
    /\ UNCHANGED <<rCount, rTotal, rMap, rDir, rJson, rSeen>>

\* lines 255-258: one pass of the purge loop
RaceUnlink(p) ==
    /\ rPc[p] = "unlink"
    /\ \E name \in rGlob[p] :
           /\ rDir' = Unlinked(rDir, name)
           /\ rGlob' = [rGlob EXCEPT ![p] = @ \ {name}]
    /\ UNCHANGED <<rPc, rCount, rTotal, rMap, rJson, rSeen>>

\* lines 260-272: the purge loop has ended; the fresh mapping and counter
RaceStartWrite(p) ==
    /\ rPc[p] = "unlink"
    /\ rGlob[p] = {}
    /\ rMap' = [rMap EXCEPT ![p] = EmptyMap]
    /\ rCount' = [rCount EXCEPT ![p] = 0]
    /\ rPc' = [rPc EXCEPT ![p] = "write"]
    /\ UNCHANGED <<rGlob, rTotal, rDir, rJson, rSeen>>

\* lines 288-298: one unit written to its snippet file and entered in the
\* run's mapping
RaceWrite(p) ==
    /\ rPc[p] = "write"
    /\ rCount[p] < rTotal[p]
    /\ LET n == NextCount(rCount[p])
           name == SnippetName(n)
           u == RaceUnit(n)
       IN  /\ rCount' = [rCount EXCEPT ![p] = n]
           /\ rDir' = MapPut(rDir, name, SnippetFile(p, SourcePath(p), u))
           /\ rMap' = [rMap EXCEPT ![p] =
                           MapPut(@, OutPath("rel", name),
                                  MappingEntry(SourcePath(p), u))]
    /\ UNCHANGED <<rPc, rGlob, rTotal, rJson, rSeen>>

\* line 301: mapping.json
RaceSave(p) ==
    /\ rPc[p] = "write"
    /\ rCount[p] = rTotal[p]
    /\ rJson' = [by |-> p, data |-> rMap[p]]
    /\ rPc' = [rPc EXCEPT ![p] = "invoke"]
    /\ UNCHANGED <<rGlob, rCount, rTotal, rMap, rDir, rSeen>>

\* line 308: the analyzer is run on the directory as it is now
RaceInvoke(p) ==
    /\ rPc[p] = "invoke"
    /\ rSeen' = [rSeen EXCEPT ![p] = rDir]
    /\ rPc' = [rPc EXCEPT ![p] = "invoked"]
    /\ UNCHANGED <<rGlob, rCount, rTotal, rMap, rDir, rJson>>

RaceNext ==
    \E p \in Procs :
        /\ \/ RaceGlob(p)
           \/ RaceUnlink(p)
           \/ RaceStartWrite(p)
           \/ RaceWrite(p)
           \/ RaceSave(p)
           \/ RaceInvoke(p)
        /\ UNCHANGED <<normVars, parseVars, mainVars, extractVars>>

SpecRace == RaceInit /\ [][RaceNext]_vars

\* the entries of a run's mapping whose snippet file was missing when its
\* analyzer was run, and those whose file held what the other run wrote
MissingAtInvoke(p) ==
    {k \in DOMAIN rMap[p] : k.name \notin DOMAIN rSeen[p]}

ForeignAtInvoke(p) ==
    {k \in DOMAIN rMap[p] :
         k.name \in DOMAIN rSeen[p] /\ rSeen[p][k.name].by # p}

\* C25: the race takes the other run: a run whose analyzer is run before the
\* other run has listed the directory finds every file of its mapping, with
\* its own SQL, and no other snippet file; and whatever the two runs do, a
\* file of a run's mapping that is there at its analyzer's run was written by
\* one of the two, with the SQL of the provenance entry when it is its own.
C25_RaceOnPurgeThenWrite ==
    \A p \in Procs :
        rPc[p] = "invoked" =>
            /\ Cardinality(DOMAIN rMap[p]) = rTotal[p]
            /\ rPc[Other(p)] = "glob" =>
                   /\ MissingAtInvoke(p) = {}
                   /\ ForeignAtInvoke(p) = {}
                   /\ DOMAIN rSeen[p] = {k.name : k \in DOMAIN rMap[p]}
            /\ \A k \in DOMAIN rMap[p] \ MissingAtInvoke(p) :
                   /\ rSeen[p][k.name].by \in Procs
                   /\ rSeen[p][k.name].by = p =>
                          rSeen[p][k.name].body = rMap[p][k].normalized_sql

\* C25 witness: run 1 wrote and recorded two snippets; run 2 then purged
\* them and wrote its own first snippet; the analyzer of run 1 finds the
\* first file with the SQL of run 2 and the second file missing.
C25_Witness ==
    /\ rPc[1] = "invoked"
    /\ DOMAIN rMap[1] = {OutPath("rel", SnippetName(1)),
                         OutPath("rel", SnippetName(2))}
    /\ ForeignAtInvoke(1) = {OutPath("rel", SnippetName(1))}
    /\ MissingAtInvoke(1) = {OutPath("rel", SnippetName(2))}
    /\ rSeen[1][SnippetName(1)].source = SourcePath(2)

----------------------------------------------------------------------------
(* normalize_sql applied to every short text, and applied again *)

SqlChars == {" ", "\n", "a", ";"}

NormInit ==
    /\ nIn \in SeqsUpTo(SqlChars, MaxLen)
    /\ nOut = <<>>
    /\ nOut2 = <<>>
    /\ nPc = "in"
    /\ ParseIdle
    /\ MainIdle
    /\ JavaIdle
    /\ XmlIdle
    /\ RaceIdle

Normalize ==
    /\ nPc = "in"
    /\ nOut' = normalize_sql(nIn)
    /\ nPc' = "once"
    /\ UNCHANGED <<nIn, nOut2, parseVars, mainVars, extractVars, raceVars>>

Renormalize ==
    /\ nPc = "once"
    /\ nOut2' = normalize_sql(nOut)
    /\ nPc' = "twice"
    /\ UNCHANGED <<nIn, nOut, parseVars, mainVars, extractVars, raceVars>>

NormNext == Normalize \/ Renormalize

SpecNorm == NormInit /\ [][NormNext]_vars

----------------------------------------------------------------------------
(* Properties of normalize_sql *)

\* number of ';' characters at the end of s
RECURSIVE TrailingSemis(_)
TrailingSemis(s) ==
    IF s # <<>> /\ s[Len(s)] = ";"
    THEN 1 + TrailingSemis(SubSeq(s, 1, Len(s) - 1))
    ELSE 0

\* every whitespace run is one space, and there is none at either end
WsCanonical(s) ==
    /\ \A i \in 1..Len(s) : IsSpace(s[i]) => s[i] = " "
    /\ \A i \in 1..(Len(s) - 1) : ~(s[i] = " " /\ s[i + 1] = " ")
    /\ s # <<>> => (~IsSpace(s[1]) /\ ~IsSpace(s[Len(s)]))

\* s without its whitespace characters
NonWs(s) == SelectSeq(s, LAMBDA c : ~IsSpace(c))

\* C9 as stated: for every input the output is whitespace-canonical and
\* ends with exactly one statement terminator.
C9_ExactlyOneTerminator ==
    nPc \in {"once", "twice"} => (WsCanonical(nOut) /\ TrailingSemis(nOut) = 1)

\* C9 amended: the output is whitespace-canonical and ends with a
\* terminator; one is appended only when the collapsed text has none at its
\* end, and terminators the input already ends with are kept as they are,
\* so the output ends with max(1, k) terminators where k is the number the
\* right-trimmed input ends with; the non-whitespace characters are
\* otherwise those of the input, in order.
C9_NormalizeShape ==
    nPc \in {"once", "twice"} =>
        LET k == TrailingSemis(RStrip(nIn))
        IN  /\ WsCanonical(nOut)
            /\ TrailingSemis(nOut) = Max(1, k)
            /\ NonWs(nOut) = (IF k = 0 THEN NonWs(nIn) \o <<";">> ELSE NonWs(nIn))

\* C9 witnesses: a text without a terminator got one, and a text ending in
\* one terminator kept exactly one.
C9_Witness ==
    /\ nPc = "once"
    /\ nIn = <<"a", " ", "\n">>
    /\ nOut = <<"a", ";">>

\* C10: normalize_sql(normalize_sql(s)) = normalize_sql(s) for every s.
C10_Idempotent ==
    nPc = "twice" => nOut2 = nOut

\* C10 witness: a second normalisation of a text the first one changed.
C10_Witness ==
    /\ nPc = "twice"
    /\ nIn = <<" ", "a", ";">>
    /\ nOut = <<"a", ";">>
    /\ nOut2 = <<"a", ";">>

----------------------------------------------------------------------------
(* extract_sql_from_java applied to the sources with one call site *)

JavaInit ==
    /\ \/ /\ jSite \in SeqsUpTo(Pieces, MaxPieces)
          /\ jAnnot \in BOOLEAN
          /\ jCode = JavaSource(jSite, jAnnot)
       \/ /\ jSite = <<>>
          /\ jAnnot = FALSE
          /\ jCode \in MixedSources
    /\ jUnits = <<>>
    /\ jPc = "in"
    /\ XmlIdle
    /\ NormIdle
    /\ ParseIdle
    /\ MainIdle
    /\ RaceIdle

ExtractJava ==
    /\ jPc = "in"
    /\ jUnits' = extract_sql_from_java(jCode)
    /\ jPc' = "done"
    /\ UNCHANGED <<jSite, jAnnot, jCode, xmlVars, normVars, parseVars, mainVars,
                   raceVars>>

JavaNext == ExtractJava

SpecJava == JavaInit /\ [][JavaNext]_vars

----------------------------------------------------------------------------
(* Properties of extract_sql_from_java *)

\* the units of the call site
CallUnits == SelectSeq(jUnits, LAMBDA u : u.ctx = "call")

\* the literals of the call site, unescaped, in source order
RECURSIVE SiteLiterals(_)
SiteLiterals(site) ==
    IF site = <<>> THEN <<>>
    ELSE (IF site[1].kind = "lit"
          THEN <<unescape_java_string(site[1].text)>> ELSE <<>>)
             \o SiteLiterals(Tail(site))

\* the literals in source order with " ? " once at each gap that holds a
\* variable or a method call; in_gap says that a " ? " for the gap at hand
\* has been put already
RECURSIVE JoinedLiterals(_, _)
JoinedLiterals(site, in_gap) ==
    IF site = <<>> THEN <<>>
    ELSE IF site[1].kind = "lit"
         THEN unescape_java_string(site[1].text)
                  \o JoinedLiterals(Tail(site), FALSE)
    ELSE (IF in_gap THEN <<>> ELSE <<" ", "?", " ">>)
             \o JoinedLiterals(Tail(site), TRUE)

\* C11 as stated, for the literals that are normalized text already: a call
\* whose argument is one string literal yields one unit, the literal
\* unescaped followed by one terminator.
C11_SingleLiteralCall ==
    (/\ jPc = "done"
     /\ Len(jSite) = 1
     /\ jSite[1].kind = "lit"
     /\ normalize_sql(unescape_java_string(jSite[1].text))
            = unescape_java_string(jSite[1].text) \o <<";">>) =>
        /\ Len(CallUnits) = 1
        /\ CallUnits[1].sql = unescape_java_string(jSite[1].text) \o <<";">>

\* C12 as stated: the SQL of a call with N literals is the literals in source
\* order with one ? at each gap that holds a non-literal sub-expression and
\* none elsewhere.
C12_PlaceholderAtEachGap ==
    (jPc = "done" /\ SiteLiterals(jSite) # <<>>) =>
        /\ Len(CallUnits) = 1
        /\ CallUnits[1].sql = normalize_sql(JoinedLiterals(jSite, FALSE))

\* C13 as stated: a call with no string literal yields no unit, a call with
\* at least one yields exactly one, tagged call.
C13_ZeroOrOneUnit ==
    (jPc = "done" /\ jCode = JavaSource(jSite, jAnnot)) =>
        Len(CallUnits) = (IF SiteLiterals(jSite) = <<>> THEN 0 ELSE 1)

\* the snippets main writes for the units of one file, from an empty
\* directory
SnippetsOf(units) ==
    WriteUnits([count |-> 0, dir |-> EmptyMap, mapping |-> EmptyMap,
                emitted |-> <<>>],
               1, "rel", SourcePath(1), units).emitted

\* C29: in the units of a Java file every annotation unit comes before every
\* call unit, and the units of either kind are in the order of their lines;
\* the snippets of the file are numbered in this order.
C29_AnnotationsBeforeCalls ==
    jPc = "done" =>
        /\ \A i, j \in 1..Len(jUnits) :
               i < j =>
                   /\ ~(jUnits[i].ctx = "call" /\ jUnits[j].ctx = "@Select")
                   /\ jUnits[i].ctx = jUnits[j].ctx
                          => jUnits[i].line < jUnits[j].line
        /\ Len(SnippetsOf(jUnits)) = Len(jUnits)
        /\ \A k \in 1..Len(jUnits) :
               /\ SnippetsOf(jUnits)[k].unit = jUnits[k]
               /\ SnippetsOf(jUnits)[k].name = SnippetName(k)

\* C29 witness: annotations on lines 1 and 3, calls on lines 2 and 4; the
\* snippets 1..4 are those of lines 1, 3, 2, 4.
C29_Witness ==
    /\ jPc = "done"
    /\ Len(jUnits) = 4
    /\ <<jUnits[1].line, jUnits[2].line, jUnits[3].line, jUnits[4].line>>
           = <<1, 3, 2, 4>>
    /\ <<jUnits[1].ctx, jUnits[2].ctx, jUnits[3].ctx, jUnits[4].ctx>>
           = <<"@Select", "@Select", "call", "call">>
    /\ SnippetsOf(jUnits)[3].name = SnippetName(3)
    /\ SnippetsOf(jUnits)[3].unit.line = 2

----------------------------------------------------------------------------
(* extract_sql_from_xml *)

\* the segments of an element body
MaxSegments == 3

XML_TARGET_TAGS == {"select", "sql", "insert", "update", "delete"}

\* sql_text[:40] of line 149
LinePrefix == 40

\* the tokens of a markup file: start tags, end tags, character data,
\* comments, and "bad" for markup the parser refuses (a stray "<" or "&")
Open(tag) == [k |-> "open", tag |-> tag, s |-> <<>>]

Close(tag) == [k |-> "close", tag |-> tag, s |-> <<>>]

Text(s) == [k |-> "text", tag |-> "", s |-> s]

Comment == [k |-> "comment", tag |-> "", s |-> <<>>]

Bad == [k |-> "bad", tag |-> "", s |-> <<>>]

IsTag(tok) == tok.k \in {"open", "close"}

\* the raw text of a start tag, an end tag and a comment, as one element each
StartTag(tag) ==
    CASE tag = "select" -> "<select>"
      [] tag = "sql" -> "<sql>"
      [] tag = "insert" -> "<insert>"
      [] tag = "update" -> "<update>"
      [] tag = "delete" -> "<delete>"
      [] tag = "where" -> "<where>"
      [] OTHER -> "<mapper>"

EndTag(tag) ==
    CASE tag = "select" -> "</select>"
      [] tag = "sql" -> "</sql>"
      [] tag = "insert" -> "</insert>"
      [] tag = "update" -> "</update>"
      [] tag = "delete" -> "</delete>"
      [] tag = "where" -> "</where>"
      [] OTHER -> "</mapper>"

COMMENT == "<!--c-->"

\* the raw text of a token
RawToken(tok) ==
    CASE tok.k = "open" -> <<StartTag(tok.tag)>>
      [] tok.k = "close" -> <<EndTag(tok.tag)>>
      [] tok.k = "text" -> tok.s
      [] tok.k = "comment" -> <<COMMENT>>
      [] tok.k = "bad" -> <<"&">>

\* xml_path.read_text(): the raw text of the tokens a..b
RECURSIVE RawText(_, _, _)
RawText(doc, a, b) ==
    IF b < a THEN <<>> ELSE RawToken(doc[a]) \o RawText(doc, a + 1, b)

\* the value re.sub gives for the one-character pattern of a placeholder:
\* marker, "{", one or more characters other than "}", "}"
RECURSIVE SubPlaceholder(_, _, _)
SubPlaceholder(s, marker, token) ==
    IF s = <<>> THEN <<>>
    ELSE LET close == IndexOf(s, "}", 3)
         IN  IF /\ Len(s) >= 4
                /\ s[1] = marker
                /\ s[2] = "{"
                /\ s[3] # "}"
                /\ close # 0
             THEN token \o SubPlaceholder(SubSeq(s, close + 1, Len(s)),
                                          marker, token)
             ELSE <<s[1]>> \o SubPlaceholder(Tail(s), marker, token)

\* lines 145-146 with one token for both forms
RewritePlaceholdersAlike(sql_text) ==
    SubPlaceholder(SubPlaceholder(sql_text, "#", <<"1">>), "$", <<"1">>)

\* lines 145-146 and 162-163
RewritePlaceholders(sql_text) ==
    SubPlaceholder(SubPlaceholder(sql_text, "#", <<"1">>), "$", <<"T", "0">>)

\* the position of the first start or end tag at or after i, 0 when none
RECURSIVE NextTag(_, _)
NextTag(doc, i) ==
    IF i > Len(doc) THEN 0
    ELSE IF IsTag(doc[i]) THEN i
    ELSE NextTag(doc, i + 1)

\* the start tag that the end tag at c closes: depth counts the end tags
\* passed that are still to be matched
RECURSIVE MatchingOpen(_, _, _)
MatchingOpen(doc, i, depth) ==
    IF i < 1 THEN 0
    ELSE IF doc[i].k = "close" THEN MatchingOpen(doc, i - 1, depth + 1)
    ELSE IF doc[i].k = "open"
         THEN IF depth = 0 THEN i ELSE MatchingOpen(doc, i - 1, depth - 1)
    ELSE MatchingOpen(doc, i - 1, depth)

\* iterparse reads the file in chunks and hands out the events of a chunk
\* after the chunk is parsed: the tokens 1..split are the first chunk
Chunk(i, split) == IF i <= split THEN 1 ELSE 2

\* line 142 at the end event of the element that spans o..c, from token i
\* on: ''.join(elem.itertext()).  Every element that ended before was
\* cleared at its end event (line 153): its text and its children are gone,
\* and so is its tail, unless the parser set the tail only after the clear,
\* which it does when the tag that follows the tail is in a later chunk than
\* the end tag.
RECURSIVE Itertext(_, _, _, _, _, _)
Itertext(doc, i, c, depth, last_tag, split) ==
    IF i >= c THEN <<>>
    ELSE LET tok == doc[i]
         IN  IF tok.k = "open"
             THEN Itertext(doc, i + 1, c, depth + 1, i, split)
             ELSE IF tok.k = "close"
             THEN Itertext(doc, i + 1, c, depth - 1, i, split)
             ELSE IF tok.k = "text"
             THEN (IF /\ depth = 0
                      /\ \/ doc[last_tag].k = "open"
                         \/ Chunk(last_tag, split)
                                < Chunk(NextTag(doc, i), split)
                   THEN tok.s ELSE <<>>)
                      \o Itertext(doc, i + 1, c, depth, last_tag, split)
             ELSE Itertext(doc, i + 1, c, depth, last_tag, split)

\* lines 149-150 with the whole statement searched for, not its first
\* characters
ApproxLineByWholeSearch(text, sql_text) ==
    LET needle == Strip(SelectSeq(sql_text, LAMBDA ch : ch # ";"))
        idx == FindFrom(text, needle, 1)
    IN  IF needle = <<>> THEN 1
        ELSE IF idx # 0 THEN CountNewlines(text, idx - 1) + 1
        ELSE 1

\* lines 149-150
ApproxLineBySearch(text, sql_text) ==
    LET head == Slice(sql_text, 1, Min(LinePrefix, Len(sql_text)))
        needle == Strip(SelectSeq(head, LAMBDA ch : ch # ";"))
        idx == FindFrom(text, needle, 1)
    IN  IF needle = <<>> THEN 1
        ELSE IF idx # 0 THEN CountNewlines(text, idx - 1) + 1
        ELSE 1

\* lines 139-151 at the end event of token c
StructuredUnit(doc, c, split) ==
    LET o == MatchingOpen(doc, c - 1, 0)
        sql_text == normalize_sql(RewritePlaceholders(
                        Itertext(doc, o + 1, c, 0, o, split)))
    IN  [sql |-> sql_text,
         line |-> ApproxLineBySearch(RawText(doc, 1, Len(doc)), sql_text),
         ctx |-> StartTag(doc[c].tag)]

\* lines 135-153: the units of the events of the tokens i..upto
RECURSIVE StructuredUnits(_, _, _, _)
StructuredUnits(doc, i, upto, split) ==
    IF i > upto THEN <<>>
    ELSE (IF doc[i].k = "close" /\ doc[i].tag \in XML_TARGET_TAGS
          THEN <<StructuredUnit(doc, i, split)>> ELSE <<>>)
             \o StructuredUnits(doc, i + 1, upto, split)

\* where the parser raises: the first token it refuses, 0 when none
RECURSIVE FirstBad(_, _)
FirstBad(doc, i) ==
    IF i > Len(doc) THEN 0
    ELSE IF doc[i].k = "bad" THEN i
    ELSE FirstBad(doc, i + 1)

\* line 161: every comment becomes a space
StripComments(s) ==
    [i \in 1..Len(s) |-> IF s[i] = COMMENT THEN " " ELSE s[i]]

\* the first position at or after `from` that holds the token tok, 0 if none
RECURSIVE TokenIndex(_, _, _)
TokenIndex(doc, tok, from) ==
    IF from > Len(doc) THEN 0
    ELSE IF doc[from] = tok THEN from
    ELSE TokenIndex(doc, tok, from + 1)

\* lines 157-165 for one tag: the matches of <tag[^>]*>([\s\S]*?)</tag> from
\* token `from` on; a match runs from a start tag to the first end tag of
\* that name after it
RECURSIVE FallbackTagUnits(_, _, _)
FallbackTagUnits(doc, tag, from) ==
    LET i == TokenIndex(doc, Open(tag), from)
        j == IF i = 0 THEN 0 ELSE TokenIndex(doc, Close(tag), i + 1)
    IN  IF j = 0 THEN <<>>
        ELSE LET body == StripComments(RawText(doc, i + 1, j - 1))
                 sql_text == normalize_sql(RewritePlaceholders(body))
                 text_before == RawText(doc, 1, i - 1)
                 approx_line ==
                     CountNewlines(text_before, Len(text_before)) + 1
             IN  <<[sql |-> sql_text, line |-> approx_line,
                    ctx |-> StartTag(tag)]>>
                     \o FallbackTagUnits(doc, tag, j + 1)

\* lines 156-165: the tags in the order the set is iterated in
RECURSIVE FallbackUnits(_, _)
FallbackUnits(doc, order) ==
    IF order = <<>> THEN <<>>
    ELSE FallbackTagUnits(doc, Head(order), 1)
             \o FallbackUnits(doc, Tail(order))

\* the orders a set may be iterated in
Orders(S) ==
    {f \in [1..Cardinality(S) -> S] :
         \A a, b \in 1..Cardinality(S) : a # b => f[a] # f[b]}

\* the target tags that occur in the file; the others match nothing
TargetTagsIn(doc) ==
    {tag \in XML_TARGET_TAGS : \E i \in 1..Len(doc) : doc[i] = Open(tag)}

\* lines 125-167: the units of the structured parse, and after them, when
\* the parser raised, the units of the fallback
extract_sql_from_xml(doc, split, order) ==
    LET bad == FirstBad(doc, 1)
    IN  IF bad = 0 THEN StructuredUnits(doc, 1, Len(doc), split)
        ELSE StructuredUnits(doc, 1, bad - 1, split)
                 \o FallbackUnits(doc, order)

\* the segments of an element body: plain text and the two placeholder forms
Segments ==
    { <<"a">>, <<" ">>, <<"#", "{", "a", "}">>, <<"$", "{", "a", "}">> }

\* a mapper with one select element whose body is the segments
FlatDoc(segs) ==
    <<Open("m"), Open("select")>>
        \o (IF segs = <<>> THEN <<>> ELSE <<Text(Flatten(segs))>>)
        \o <<Close("select"), Close("m")>>

\* mappers with nested elements, a comment, a second statement
NestedDocs ==
    { <<Open("m"), Open("select"), Text(<<"a", " ">>), Open("where"),
        Text(<<"b">>), Close("where"), Text(<<" ", "c">>), Close("select"),
        Close("m")>>,
      <<Open("m"), Open("select"), Text(<<"a", "\n">>), Open("sql"),
        Text(<<"b">>), Close("sql"), Text(<<" ", "c">>), Close("select"),
        Text(<<"\n">>), Open("update"), Text(<<"u">>), Close("update"),
        Close("m")>>,
      <<Open("m"), Open("select"), Text(<<"a">>), Comment, Text(<<"b">>),
        Close("select"), Close("m")>>,
      <<Open("m"), Open("update"), Text(<<"#", "{", "a", "}">>),
        Open("where"), Text(<<"$", "{", "a", "}">>), Close("where"),
        Close("update"), Close("m")>> }

\* a statement longer than the prefix searched for: LinePrefix times "b", a
\* line break, "k"
LongStatement == [i \in 1..LinePrefix |-> "b"] \o <<"\n", "k">>

\* mappers whose statement is not on the first line: below its start tag,
\* with a semicolon inside, longer than the prefix searched for
LinedDocs ==
    { <<Open("m"), Text(<<"\n">>), Open("select"), Text(<<"\n", "b">>),
        Close("select"), Close("m")>>,
      <<Open("m"), Text(<<"\n">>), Open("select"), Text(<<"b", ";", "b">>),
        Close("select"), Close("m")>>,
      <<Open("m"), Text(<<"\n">>), Open("select"), Text(LongStatement),
        Close("select"), Close("m")>> }

\* the file with markup the parser refuses before the root's end tag
WithBad(doc) == SubSeq(doc, 1, Len(doc) - 1) \o <<Bad, Close("m")>>

GoodDocs ==
    {FlatDoc(segs) : segs \in SeqsUpTo(Segments, MaxSegments)}
        \cup NestedDocs \cup LinedDocs

Docs == GoodDocs \cup {WithBad(doc) : doc \in GoodDocs}

XmlInit ==
    /\ xDoc \in Docs
    /\ xSplit \in 0..Len(xDoc)
    /\ xUnits = <<>>
    /\ xFailed = FALSE
    /\ xPc = "in"
    /\ JavaIdle
    /\ NormIdle
    /\ ParseIdle
    /\ MainIdle
    /\ RaceIdle

ExtractXml ==
    /\ xPc = "in"
    /\ \E order \in Orders(TargetTagsIn(xDoc)) :
           xUnits' = extract_sql_from_xml(xDoc, xSplit, order)
    /\ xFailed' = (FirstBad(xDoc, 1) # 0)
    /\ xPc' = "done"
    /\ UNCHANGED <<xDoc, xSplit, javaVars, normVars, parseVars, mainVars,
                   raceVars>>

XmlNext == ExtractXml

SpecXml == XmlInit /\ [][XmlNext]_vars

----------------------------------------------------------------------------
(* Properties of extract_sql_from_xml *)

\* all character data of the tokens a..b, in document order
RECURSIVE AllText(_, _, _)
AllText(doc, a, b) ==
    IF b < a THEN <<>>
    ELSE (IF doc[a].k = "text" THEN doc[a].s ELSE <<>>)
             \o AllText(doc, a + 1, b)

\* the end tags of the qualifying elements, in document order
QualifyingCloses(doc) ==
    LET idx == {i \in 1..Len(doc) :
                    doc[i].k = "close" /\ doc[i].tag \in XML_TARGET_TAGS}
        Nth[k \in 1..Cardinality(idx)] ==
            CHOOSE i \in idx : Cardinality({j \in idx : j < i}) = k - 1
    IN  Nth

\* C14 as stated: in the structured strategy the SQL of a qualifying element
\* is made of all text of the element and of its descendants, in document
\* order.
C14_AllDescendantText ==
    (xPc = "done" /\ ~xFailed) =>
        LET closes == QualifyingCloses(xDoc)
        IN  /\ Len(xUnits) = Len(closes)
            /\ \A k \in 1..Len(closes) :
                   xUnits[k].sql =
                       normalize_sql(RewritePlaceholders(
                           AllText(xDoc,
                                   MatchingOpen(xDoc, closes[k] - 1, 0),
                                   closes[k])))

\* C15 as stated: the result is exactly the structured units when the parse
\* succeeds and exactly the fallback units when it fails, one unit for each
\* qualifying element.
C15_OneStrategyOnly ==
    xPc = "done" =>
        /\ Len(xUnits) = Len(QualifyingCloses(xDoc))
        /\ IF xFailed
           THEN \E order \in Orders(TargetTagsIn(xDoc)) :
                    xUnits = FallbackUnits(xDoc, order)
           ELSE xUnits = StructuredUnits(xDoc, 1, Len(xDoc), xSplit)

\* the canonical tokens of the segments of a body
RECURSIVE CanonicalTokens(_)
CanonicalTokens(segs) ==
    IF segs = <<>> THEN <<>>
    ELSE (IF Head(segs)[1] = "#" THEN <<"1">>
          ELSE IF Head(segs)[1] = "$" THEN <<"T", "0">>
          ELSE Head(segs)) \o CanonicalTokens(Tail(segs))

\* C16: in both strategies every #{name} becomes 1 and every ${name} becomes
\* T0, two different tokens, and no unit keeps a marker or a brace of a
\* placeholder.
C16_PlaceholdersRewritten ==
    xPc = "done" =>
        /\ \A segs \in SeqsUpTo(Segments, MaxSegments) :
               xDoc \in {FlatDoc(segs), WithBad(FlatDoc(segs))} =>
                   \A k \in 1..Len(xUnits) :
                       xUnits[k].sql = normalize_sql(CanonicalTokens(segs))
        /\ \A k \in 1..Len(xUnits) :
               \A i \in 1..Len(xUnits[k].sql) :
                   xUnits[k].sql[i] \notin {"#", "$", "{", "}"}

\* C16 witness: a body with both placeholder forms, extracted by the
\* structured parse and, the parse having failed, by the fallback too.
C16_Witness ==
    /\ xPc = "done"
    /\ xFailed
    /\ xDoc = WithBad(FlatDoc(<< <<"#", "{", "a", "}">>, <<" ">>,
                                 <<"$", "{", "a", "}">> >>))
    /\ Len(xUnits) = 2
    /\ xUnits[1].sql = <<"1", " ", "T", "0", ";">>
    /\ xUnits[2].sql = <<"1", " ", "T", "0", ";">>

\* the first position of text at which needle lies, 0 when it lies nowhere
FirstOccurrence(text, needle) ==
    LET at == {i \in 1..(Len(text) - Len(needle) + 1) :
                   \A k \in 1..Len(needle) : text[i + k - 1] = needle[k]}
    IN  IF at = {} THEN 0 ELSE SetMin(at)

\* the line of position idx of text; line 1 for no position
LineOf(text, idx) ==
    IF idx = 0 THEN 1
    ELSE 1 + Cardinality({k \in 1..(idx - 1) : text[k] = "\n"})

\* the lines of text
LineCount(text) == 1 + Cardinality({k \in 1..Len(text) : text[k] = "\n"})

\* the first LinePrefix characters of the statement without its terminator
PrefixWithoutTerminator(sql) ==
    LET body == IF EndsWith(sql, ";") THEN SubSeq(sql, 1, Len(sql) - 1)
                ELSE sql
    IN  SubSeq(body, 1, Min(LinePrefix, Len(body)))

\* the first LinePrefix characters of the statement with every semicolon
\* taken out of them, and no whitespace at their ends
PrefixWithoutSemicolons(sql) ==
    Strip(SelectSeq(SubSeq(sql, 1, Min(LinePrefix, Len(sql))),
                    LAMBDA ch : ch # ";"))

\* the raw text of the file
XmlText == RawText(xDoc, 1, Len(xDoc))

\* the units the parser's events gave: all of them when the file parsed,
\* those of the qualifying elements that end before the refused markup when
\* it did not
EventUnits ==
    IF ~xFailed THEN Len(xUnits)
    ELSE Cardinality({c \in 1..(FirstBad(xDoc, 1) - 1) :
                          xDoc[c].k = "close" /\ xDoc[c].tag \in XML_TARGET_TAGS})

\* the lines of the start tags of a context in the file
StartTagLines(ctx) ==
    {LineOf(XmlText, Len(RawText(xDoc, 1, i - 1)) + 1) :
         i \in {j \in 1..Len(xDoc) :
                    xDoc[j].k = "open" /\ StartTag(xDoc[j].tag) = ctx}}

\* C27 as stated: the approximate line of every unit of a markup file is the
\* line of the first occurrence in the raw text of the first 40 characters
\* of its statement without the terminator, line 1 when they do not occur;
\* it is at least 1 and at most the number of lines of the file.
C27_LineByPrefixSearch ==
    xPc = "done" =>
        \A k \in 1..Len(xUnits) :
            /\ xUnits[k].line
                   = LineOf(XmlText,
                            FirstOccurrence(XmlText,
                                PrefixWithoutTerminator(xUnits[k].sql)))
            /\ xUnits[k].line >= 1
            /\ xUnits[k].line <= LineCount(XmlText)

\* C27 amended: the approximate line of a unit of the parser's events is the
\* line of the first occurrence in the raw text of the first 40 characters
\* of its statement with every semicolon taken out and the ends stripped,
\* line 1 when they do not occur; the approximate line of a unit of the
\* fallback is the line of the start tag of its element; both are at least 1
\* and at most the number of lines of the file.
C27_LineBySearchOrTag ==
    xPc = "done" =>
        /\ EventUnits <= Len(xUnits)
        /\ \A k \in 1..Len(xUnits) :
               /\ k <= EventUnits =>
                      xUnits[k].line
                          = LineOf(XmlText,
                                   FirstOccurrence(XmlText,
                                       PrefixWithoutSemicolons(xUnits[k].sql)))
               /\ k > EventUnits =>
                      xUnits[k].line \in StartTagLines(xUnits[k].ctx)
               /\ xUnits[k].line >= 1
               /\ xUnits[k].line <= LineCount(XmlText)

\* C27 witness: a statement longer than 40 characters that begins on the
\* second line and goes on to the third; the first 40 are found on line 2.
C27_Witness ==
    /\ xPc = "done"
    /\ ~xFailed
    /\ Len(xUnits) = 1
    /\ Len(xUnits[1].sql) > LinePrefix
    /\ FirstOccurrence(XmlText, SubSeq(xUnits[1].sql, 1, LinePrefix + 1)) = 0
    /\ xUnits[1].line = 2
    /\ LineCount(XmlText) = 3

====
